---- MODULE Spec2Model ----
(***************************************************************************)
(* A model of pyvvo's GLM model manager (src/pyvvo/manage_glm.py): the     *)
(* tree of record (GLMManager.model_dict), the lookup index                *)
(* (GLMManager.model_map), the two key counters and the serializer         *)
(* (sorted_write).                                                         *)
(*                                                                         *)
(* Python objects are modelled with an explicit heap: a dict that the      *)
(* program shares between the tree and the index is ONE heap cell referred *)
(* to twice, so "the very same item" is equality of references.  A Python  *)
(* dict is an insertion-ordered mapping and is modelled as a sequence of   *)
(* <<key, value>> pairs with distinct keys.  A field value is a record     *)
(* [ty, s]: ty is the Python type of the value ("str", "int", "float") and *)
(* s the text str() gives for it.                                          *)
(*                                                                         *)
(* Every call passes a freshly built dict whose keys are all text (the     *)
(* usage of the test-suite); the caller's own copy of that dict is not     *)
(* part of the manager's state and is not modelled.                        *)
(***************************************************************************)
EXTENDS Integers, Sequences, FiniteSets, TLC

VARIABLES
    heap,         \* reference -> item dict (the dict objects the manager reaches)
    model_dict,   \* GLMManager.model_dict: ordered dict, key -> reference
    model_map,    \* GLMManager.model_map: clock, module, object, object_unnamed
    append_key,   \* GLMManager.append_key
    prepend_key,  \* GLMManager.prepend_key
    op,           \* name of the last call made on the manager
    err,          \* "" when the last call returned, else the message it raised with
    ret,          \* the text the last call wrote out ("" when it wrote none)
    lo,           \* history: smallest key of the tree at load
    hi,           \* history: largest key of the tree at load
    n_append,     \* history: number of successful object adds
    n_prepend,    \* history: number of successful non-object adds
    n_remove,     \* history: number of successful remove_item calls
    glm_text,     \* the model text given to parse() or to the constructor
    glm_tree,     \* the tree parse() returned, or one given to sorted_write
    glm_again,    \* the tree parse() returned for the text sorted_write wrote
    main_loop     \* _parse_token_list's locals while its main loop runs

vars == <<heap, model_dict, model_map, append_key, prepend_key, op, err, ret,
          lo, hi, n_append, n_prepend, n_remove, glm_text, glm_tree, glm_again,
          main_loop>>

\* What the module-level functions parse and sorted_write work on.
texts == <<glm_text, glm_tree, glm_again, main_loop>>

\* The manager's own state: what a failed call must leave alone.
manager == <<heap, model_dict, model_map, append_key, prepend_key>>

(***************************************************************************)
(* Bounds of the model.                                                    *)
(***************************************************************************)
\* At most this many add_item calls succeed after load, under Spec.
MaxAdds == 1
\* At most this many add_item calls succeed after load, under SpecAddRemove.
MaxAddsAddRemove == 3
\* A model text holds at most this many statements, under SpecText.
MaxStatements == 2
\* At most this many calls add items to the tree, under SpecRun.
MaxRuns == 1

(***************************************************************************)
(* Python values and dicts.                                                *)
(***************************************************************************)
\* A text value.
T(s) == [ty |-> "str", s |-> s]
\* An integer value, given by its decimal text.
N(s) == [ty |-> "int", s |-> s]
\* str(v): the value as text.
str(v) == [ty |-> "str", s |-> v.s]

\* list(d.keys()) as a set.
Keys(d) == {d[i][1] : i \in DOMAIN d}
\* k in d
Has(d, k) == \E i \in DOMAIN d : d[i][1] = k
\* position of key k in d
Idx(d, k) == CHOOSE i \in DOMAIN d : d[i][1] = k
\* d[k]
Get(d, k) == d[Idx(d, k)][2]
\* d[k] = v: overwrite in place, or insert at the end
Put(d, k, v) ==
    IF Has(d, k) THEN [d EXCEPT ![Idx(d, k)] = <<k, v>>] ELSE Append(d, <<k, v>>)
\* d.pop(k), for k in d
Pop(d, k) == SelectSeq(d, LAMBDA e : e[1] # k)

Max(S) == CHOOSE x \in S : \A y \in S : y <= x
Min(S) == CHOOSE x \in S : \A y \in S : x <= y

(***************************************************************************)
(* The messages the code raises with.  Every failure of the manager is a   *)
(* UserWarning carrying one of these texts, except the KeyError that       *)
(* remove_item lets escape from its index lookup.                          *)
(***************************************************************************)
E_UnknownType == "Unknown type! Item"
E_NoAddMethod == "No add method for item type"
E_NoAddNonObject == "No add method for item type (non-object)"
E_MultipleClocks == "Multiple clocks defined!"
E_MalformedModule == "Malformed module_dict"
E_ModulePresent == "Module is already present!"
E_ObjectExists == "already exists in the map!"
E_NameNeeded == "To update an object, its name is needed."
E_NoObject == "Object does not exist in the model map!"
E_NoModule == "Module does not exist!"
E_NoClock == "Clock does not exist!"
E_NoField == "Could not remove nonexistent field "
E_CannotModify == "Cannot modify item of type"
E_CannotRemoveProps == "Cannot remove properties from items of type"
E_CannotRemove == "Cannot remove item of type"
E_Unnamed == "Cannot remove unnamed objects!"
E_KeyError == "KeyError"
E_TypeError == "TypeError"

(***************************************************************************)
(* GLMManager._get_item_type: the first marker found, in the code's order. *)
(***************************************************************************)
_get_item_type(item_dict) ==
    IF Has(item_dict, "object") THEN "object"
    ELSE IF Has(item_dict, "module") THEN "module"
    ELSE IF Has(item_dict, "clock") THEN "clock"
    ELSE IF Has(item_dict, "#include") THEN "include"
    ELSE IF Has(item_dict, "#set") THEN "set"
    ELSE IF Has(item_dict, "omftype") THEN "omftype"
    ELSE E_UnknownType

\* GLMManager.no_map and GLMManager.non_objects
no_map == {"set", "include"}
non_objects == {"clock", "module", "include", "set", "omftype"}

(***************************************************************************)
(* The index.  An entry is the pair <<model_key, reference>>; the helpers  *)
(* return the new index and the message raised ("" when none).             *)
(***************************************************************************)
EmptyMap == [clock |-> <<>>, module |-> <<>>, object |-> <<>>,
             object_unnamed |-> <<>>]

\* Mutant: the clock is mapped without the check for an existing one.
_add_clock_to_map_unchecked(mm, model_key, ref) ==
    [mm |-> [mm EXCEPT !.clock = <<model_key, ref>>], err |-> ""]

_add_clock_to_map(mm, model_key, ref) ==
    IF Len(mm.clock) > 0
    THEN [mm |-> mm, err |-> E_MultipleClocks]
    ELSE [mm |-> [mm EXCEPT !.clock = <<model_key, ref>>], err |-> ""]

\* _add_module_to_map without the test for a module of the same name.
_add_module_to_map_unchecked(mm, model_key, ref, module_dict) ==
    IF ~Has(module_dict, "module") /\ ~Has(module_dict, "omftype")
    THEN [mm |-> mm, err |-> E_MalformedModule]
    ELSE LET module_name == IF Has(module_dict, "module")
                            THEN Get(module_dict, "module")
                            ELSE Get(module_dict, "argument")
         IN [mm |-> [mm EXCEPT !.module =
                        Put(@, module_name, <<model_key, ref>>)],
             err |-> ""]

_add_module_to_map(mm, model_key, ref, module_dict) ==
    IF ~Has(module_dict, "module") /\ ~Has(module_dict, "omftype")
    THEN [mm |-> mm, err |-> E_MalformedModule]
    ELSE LET module_name == IF Has(module_dict, "module")
                            THEN Get(module_dict, "module")
                            ELSE Get(module_dict, "argument")
         IN IF Has(mm.module, module_name)
            THEN [mm |-> mm, err |-> E_ModulePresent]
            ELSE [mm |-> [mm EXCEPT !.module =
                                Put(@, module_name, <<model_key, ref>>)],
                  err |-> ""]

_add_object_to_map(mm, model_key, ref, object_dict) ==
    LET obj_type == Get(object_dict, "object")
        key_obj == <<model_key, ref>>
        \* the type's sub-dict is created before the name is looked at
        mm1 == IF Has(mm.object, obj_type) THEN mm
               ELSE [mm EXCEPT !.object = Put(@, obj_type, <<>>)]
    IN IF ~Has(object_dict, "name")
       THEN [mm |-> [mm1 EXCEPT !.object_unnamed = Append(@, key_obj)],
             err |-> ""]
       ELSE IF Has(Get(mm1.object, obj_type), Get(object_dict, "name"))
       THEN [mm |-> mm1, err |-> E_ObjectExists]
       ELSE [mm |-> [mm1 EXCEPT !.object =
                        Put(@, obj_type,
                            Put(Get(mm1.object, obj_type),
                                Get(object_dict, "name"), key_obj))],
             err |-> ""]

\* One iteration of _map_model_dict's loop.
MapItem(mm, model_key, ref, item_dict) ==
    LET item_type == _get_item_type(item_dict)
    IN CASE item_type = "object" -> _add_object_to_map(mm, model_key, ref, item_dict)
         [] item_type = "clock" -> _add_clock_to_map(mm, model_key, ref)
         [] item_type = "module" -> _add_module_to_map(mm, model_key, ref, item_dict)
         [] item_type = "omftype" ->
               IF Get(item_dict, "omftype") = T("module")
               THEN _add_module_to_map(mm, model_key, ref, item_dict)
               ELSE [mm |-> mm, err |-> ""]
         [] item_type \in no_map -> [mm |-> mm, err |-> ""]
         [] OTHER -> [mm |-> mm, err |-> item_type]

\* _map_model_dict over the first n entries of the tree md, stopping at the
\* first message raised.
RECURSIVE MapPrefix(_, _, _)
MapPrefix(md, h, n) ==
    IF n = 0 THEN [mm |-> EmptyMap, err |-> ""]
    ELSE LET before == MapPrefix(md, h, n - 1)
         IN IF before.err # "" THEN before
            ELSE MapItem(before.mm, md[n][1], md[n][2], h[md[n][2]])

_map_model_dict(md, h) == MapPrefix(md, h, Len(md))

(***************************************************************************)
(* Text.  A model text is a string; its characters are its substrings of   *)
(* length one.                                                             *)
(***************************************************************************)
\* The characters of the model's texts that the expression \s matches.
Whitespace == {" ", "\n", "\t", "\r"}

\* s[i] (1-based)
Char(s, i) == SubSeq(s, i, i)
\* s[i:] starts with p
StartsAt(s, i, p) ==
    i + Len(p) - 1 <= Len(s) /\ SubSeq(s, i, i + Len(p) - 1) = p

\* the characters of s at the positions i..j that are in keep, in order
RECURSIVE Pick(_, _, _, _)
Pick(s, keep, i, j) ==
    IF i > j THEN ""
    ELSE IF i = j THEN (IF i \in keep THEN Char(s, i) ELSE "")
    ELSE Pick(s, keep, i, (i + j) \div 2) \o Pick(s, keep, (i + j) \div 2 + 1, j)

\* s[i..j] with every character old replaced by new
RECURSIVE ReplaceIn(_, _, _, _, _)
ReplaceIn(s, old, new, i, j) ==
    IF i > j THEN ""
    ELSE IF i = j THEN (IF Char(s, i) = old THEN new ELSE Char(s, i))
    ELSE ReplaceIn(s, old, new, i, (i + j) \div 2)
         \o ReplaceIn(s, old, new, (i + j) \div 2 + 1, j)

\* s.replace(old, new), for a one-character old
replace(s, old, new) == ReplaceIn(s, old, new, 1, Len(s))

\* s.find(c) >= 0
Contains(s, c) == \E i \in 1..Len(s) : Char(s, i) = c

\* s.split(c)[0]
SplitFirst(s, c) ==
    IF Contains(s, c)
    THEN SubSeq(s, 1, (CHOOSE i \in 1..Len(s) :
                          Char(s, i) = c /\ \A j \in 1..(i - 1) : Char(s, j) # c)
                       - 1)
    ELSE s

\* ' '.join(words)
RECURSIVE Join(_)
Join(words) ==
    IF words = <<>> THEN ""
    ELSE IF Len(words) = 1 THEN words[1]
    ELSE words[1] \o " " \o Join(Tail(words))

(***************************************************************************)
(* _tokenize_glm, for a model given as text (file_path=False).             *)
(***************************************************************************)
\* re.sub(r'http:\/\/', '', data): the occurrences cannot overlap
SubHttp(data) ==
    LET matched == {i \in 1..Len(data) :
                       \E k \in 1..i : i - k < 7 /\ StartsAt(data, k, "http://")}
    IN Pick(data, (1..Len(data)) \ matched, 1, Len(data))

\* re.sub(r'\/\/.*(\s*)', '', data): a comment goes with the rest of its
\* line and with the whitespace after it
SubComments(data) ==
    LET n == Len(data)
        starts == {k \in 1..n : StartsAt(data, k, "//")}
        breaks == {e \in 1..n : Char(data, e) = "\n"} \cup {n + 1}
        solid == {f \in 1..n : Char(data, f) \notin Whitespace} \cup {n + 1}
        EndOfLine(k) == CHOOSE e \in breaks :
                           e >= k /\ \A b \in breaks : b >= k => e <= b
        EndOfSpace(e) == CHOOSE f \in solid :
                            f >= e /\ \A g \in solid : g >= e => f <= g
        matched == UNION {k..(EndOfSpace(EndOfLine(k)) - 1) : k \in starts}
    IN Pick(data, (1..n) \ matched, 1, n)

\* re.split(r'(;|\}|\{|\s)', data) without the '' and ' ' pieces: the words
\* between the separators, and every separator but the space
Split(data) ==
    LET n == Len(data)
        separators == {i \in 1..n :
                          Char(data, i) \in {";", "}", "{"} \cup Whitespace}
        starts == {i \in 1..n :
                      IF i \in separators THEN Char(data, i) # " "
                      ELSE i = 1 \/ (i - 1) \in separators}
        ends == {j \in (1..n) \ separators : j = n \/ (j + 1) \in separators}
        WordEnd(i) == CHOOSE j \in ends : j >= i /\ \A e \in ends : e >= i => j <= e
        Piece(i) == IF i \in separators THEN Char(data, i)
                    ELSE SubSeq(data, i, WordEnd(i))
        Nth(k) == CHOOSE i \in starts : Cardinality({j \in starts : j < i}) = k - 1
    IN [k \in 1..Cardinality(starts) |-> Piece(Nth(k))]

_tokenize_glm(input_str) ==
    LET data == replace(replace(SubComments(SubHttp(input_str)), "\r", ""),
                        "\t", " ")
    IN Split(data)

(***************************************************************************)
(* _parse_token_list.  The tree it builds is a dict from integer guid to   *)
(* item, as <<guid, item>> pairs in insertion order.  An item nested in    *)
(* another is a value of its parent, filed under its integer guid.         *)
(***************************************************************************)
\* Exceptions that escape the parser and the constructor.
E_IndexError == "IndexError"
E_AttributeError == "AttributeError"
E_ValueError == "ValueError"

\* The integer guid as a key of an item.  (A field name is a token and
\* holds no space, so it is never equal to the key of a nested item.)
IntKey(guid) == "int " \o ToString(guid)
IsIntKey(key) == StartsAt(key, 1, "int ")
\* A nested item, as a value of its parent.
D(item) == [ty |-> "dict", d |-> item]
\* A float value, given by the text str() gives for it.
F(s) == [ty |-> "float", s |-> s]

\* The tokens that end a full token.
Terminators == {"{", ";", "}", "\n", "shape"}

\* The position of the first of the tokens from n on that is in stops,
\* 0 when there is none (the pop that goes for it raises IndexError).
RECURSIVE FirstIn(_, _, _)
FirstIn(tokens, stops, n) ==
    IF n > Len(tokens) THEN 0
    ELSE IF tokens[n] \in stops THEN n
    ELSE FirstIn(tokens, stops, n + 1)

\* list_to_string: list_in[1:-1] joined by spaces; reduce() raises
\* TypeError on an empty slice.
list_to_string(list_in) ==
    IF Len(list_in) = 0 THEN [s |-> "", err |-> ""]
    ELSE IF Len(list_in) <= 2 THEN [s |-> "", err |-> E_TypeError]
    ELSE [s |-> Join(SubSeq(list_in, 2, Len(list_in) - 1)), err |-> ""]

\* current[key_f] = value, for current the item at path below item
RECURSIVE ItemAdd(_, _, _, _)
ItemAdd(item, path, key_f, value) ==
    IF path = <<>> THEN Put(item, key_f, value)
    ELSE Put(item, IntKey(path[1]),
             D(ItemAdd(Get(item, IntKey(path[1])).d, Tail(path), key_f, value)))

\* current_leaf_add with a scope open: the field goes to the innermost item
current_leaf_add(key_f, value, tree_f, guid_stack_f) ==
    [tree_f EXCEPT ![Idx(tree_f, guid_stack_f[1])][2] =
                      ItemAdd(@, Tail(guid_stack_f), key_f, value)]

\* The state of the main loop: the tokens not yet popped, the tree, guid and
\* guid_stack, the exception raised ("" when none), and whether a value
\* that is no item was stored in the tree itself (a shape read with no
\* scope open).
ParseState(token_list) ==
    [tokens |-> token_list, tree |-> <<>>, guid |-> 0, guid_stack |-> <<>>,
     err |-> "", bad_top |-> FALSE]

Fail(st, e) == [st EXCEPT !.err = e]

\* tree[guid] = item; guid += 1
TopItem(st, rest, item) ==
    [st EXCEPT !.tokens = rest, !.tree = Append(@, <<st.guid, item>>),
               !.guid = @ + 1]

\* current_leaf_add(key_f, value, tree, guid_stack) of a text value
LeafAdd(st, rest, key_f, value) ==
    IF st.guid_stack = <<>>
    THEN [st EXCEPT !.tokens = rest, !.bad_top = TRUE]
    ELSE [st EXCEPT !.tokens = rest,
                    !.tree = current_leaf_add(key_f, value, @, st.guid_stack)]

\* the branch of a full token that starts with shape
ShapeStep(st, rest) ==
    LET m == FirstIn(rest, {"\n"}, 1)
        read == <<"shape">> \o SubSeq(rest, 1, m)
        full_token == [read EXCEPT ![Len(read) - 1] = ""]
        value == list_to_string(SubSeq(full_token, 1, Len(full_token) - 1))
        after == SubSeq(rest, m + 1, Len(rest))
    IN IF m = 0 THEN Fail(st, E_IndexError)
       ELSE IF value.err # "" THEN Fail(st, value.err)
       ELSE [LeafAdd(st, after, full_token[1], T(value.s)) EXCEPT !.guid = @ + 1]

\* the branch of a full token that starts with schedule
ScheduleStep(st, first, rest) ==
    LET m == FirstIn(rest, {"}"}, 1)
        full_token == first \o SubSeq(rest, 1, m)
    IN IF m = 0 THEN Fail(st, E_IndexError)
       ELSE TopItem(st, SubSeq(rest, m + 1, Len(rest)),
                    << <<"object", T("schedule")>>,
                       <<"name", T(full_token[2])>>,
                       <<"cron", T(Join(SubSeq(full_token, 4,
                                               Len(full_token) - 2)))>> >>)

\* the branch of a full token that ends with {, were guid left as it is
OpenStep_keeping_guid(st, full_token, rest) ==
    LET n == Len(full_token)
        opened == IF st.guid_stack = <<>>
                  THEN Append(st.tree, <<st.guid, <<>> >>)
                  ELSE current_leaf_add(IntKey(st.guid), D(<<>>), st.tree,
                                        st.guid_stack)
        stack == Append(st.guid_stack, st.guid)
        key_f == IF n < 4 THEN full_token[1] ELSE "omfEmbeddedConfigObject"
        value == IF n < 4 THEN full_token[n - 1]
                 ELSE full_token[1] \o " " \o list_to_string(full_token).s
    IN [st EXCEPT !.tokens = rest,
                  !.tree = IF n > 1
                           THEN current_leaf_add(key_f, T(value), opened, stack)
                           ELSE opened,
                  !.guid_stack = stack]

\* the branch of a full token that ends with {
OpenStep(st, full_token, rest) ==
    LET n == Len(full_token)
        opened == IF st.guid_stack = <<>>
                  THEN Append(st.tree, <<st.guid, <<>> >>)
                  ELSE current_leaf_add(IntKey(st.guid), D(<<>>), st.tree,
                                        st.guid_stack)
        stack == Append(st.guid_stack, st.guid)
        key_f == IF n < 4 THEN full_token[1] ELSE "omfEmbeddedConfigObject"
        value == IF n < 4 THEN full_token[n - 1]
                 ELSE full_token[1] \o " " \o list_to_string(full_token).s
    IN [st EXCEPT !.tokens = rest,
                  !.tree = IF n > 1
                           THEN current_leaf_add(key_f, T(value), opened, stack)
                           ELSE opened,
                  !.guid_stack = stack,
                  !.guid = @ + 1]

\* One pass of the main loop, were no token popped and nothing done.
ParseStep_idle(st) == st

\* One pass of the main loop: a full token is popped and worked with.
ParseStep(st) ==
    LET n == FirstIn(st.tokens, Terminators, 1)
        full_token == SubSeq(st.tokens, 1, n)
        rest == SubSeq(st.tokens, n + 1, Len(st.tokens))
        last == full_token[n]
        joined == list_to_string(full_token)
    IN IF n = 0 THEN Fail(st, E_IndexError)
       ELSE IF full_token[1] \in {"#set", "#include"}
       THEN (IF joined.err # "" THEN Fail(st, joined.err)
             ELSE IF last = ";"
             THEN TopItem(st, rest, << <<"omftype", T(full_token[1])>>,
                                       <<"argument", T(joined.s)>> >>)
             ELSE TopItem(st, rest, << <<full_token[1], T(joined.s)>> >>))
       ELSE IF full_token[1] = "shape" THEN ShapeStep(st, rest)
       ELSE IF last = "\n" \/ last = ";"
       THEN (IF st.guid_stack = <<>> /\ n > 1
             THEN (IF joined.err # "" THEN Fail(st, joined.err)
                   ELSE TopItem(st, rest, << <<"omftype", T(full_token[1])>>,
                                             <<"argument", T(joined.s)>> >>))
             ELSE IF n > 1
             THEN (IF joined.err # "" THEN Fail(st, joined.err)
                   ELSE LeafAdd(st, rest, full_token[1], T(joined.s)))
             ELSE [st EXCEPT !.tokens = rest])
       ELSE IF last = "}"
       THEN (IF n > 1 /\ joined.err # "" THEN Fail(st, joined.err)
             ELSE IF st.guid_stack = <<>> THEN Fail(st, E_IndexError)
             ELSE [(IF n > 1 THEN LeafAdd(st, rest, full_token[1], T(joined.s))
                    ELSE [st EXCEPT !.tokens = rest])
                   EXCEPT !.guid_stack = SubSeq(@, 1, Len(@) - 1)])
       ELSE IF full_token[1] = "schedule" THEN ScheduleStep(st, full_token, rest)
       ELSE IF last = "{" THEN OpenStep(st, full_token, rest)
       ELSE [st EXCEPT !.tokens = rest]

\* The main loop: while token_list.
RECURSIVE ParseLoop(_)
ParseLoop(st) ==
    IF st.err # "" \/ st.tokens = <<>> THEN st ELSE ParseLoop(ParseStep(st))

(***************************************************************************)
(* The pass over the finished tree (lines 183-228): the old object syntax  *)
(* is translated, recorders are deleted, fuses get a replacement time.     *)
(***************************************************************************)
\* The item holds a nested item.
HasNested(item) == \E i \in DOMAIN item : item[i][2].ty = "dict"

\* NameFromType without the test for a name in the item.
NameFromType_overwriting(item) ==
    LET type == Get(item, "object").s
        named == IF Contains(type, ":")
                 THEN Put(item, "name", T(replace(type, ":", "_")))
                 ELSE item
    IN Put(named, "object", T(SplitFirst(type, ":")))

\* The name taken from an object type in the old syntax type:id, and the
\* type without the id.
NameFromType(item) ==
    LET type == Get(item, "object").s
        named == IF ~Has(item, "name") /\ Contains(type, ":")
                 THEN Put(item, "name", T(replace(type, ":", "_")))
                 ELSE item
    IN Put(named, "object", T(SplitFirst(type, ":")))

\* tree[key][line] = tree[key][line].replace(':', '_'), for every line
ReplaceColons(item) ==
    [i \in DOMAIN item |-> <<item[i][1], T(replace(item[i][2].s, ":", "_"))>>]

\* The object types the pass deletes from the tree.
objects_to_delete(item) ==
    Get(item, "object").s \in {"recorder", "group_recorder", "collector"}

\* DefaultFuse without the test of the object type.
DefaultFuse_any_type(item) ==
    IF ~Has(item, "mean_replacement_time")
    THEN Put(item, "mean_replacement_time", F("3600.0"))
    ELSE item

\* A fuse without a mean_replacement_time gets the float 3600.0.
DefaultFuse(item) ==
    IF Get(item, "object") = T("fuse") /\ ~Has(item, "mean_replacement_time")
    THEN Put(item, "mean_replacement_time", F("3600.0"))
    ELSE item

\* ReplaceHyphens on every value of the item, whatever k is.
ReplaceHyphens_in_every_field(item, k) ==
    [i \in DOMAIN item |->
        <<item[i][1],
          IF item[i][2].ty = "str"
          THEN T(replace(item[i][2].s, "-", "_")) ELSE item[i][2]>>]

\* tree[key][k] = tree[key][k].replace('-', '_'), for k in the item
ReplaceHyphens(item, k) ==
    IF Has(item, k) THEN Put(item, k, T(replace(Get(item, k).s, "-", "_")))
    ELSE item

\* The pass on one object item.
NormalizeObject(item) ==
    LET fused == DefaultFuse(ReplaceColons(NameFromType(item)))
    IN ReplaceHyphens(ReplaceHyphens(ReplaceHyphens(ReplaceHyphens(
           fused, "name"), "parent"), "from"), "to")

\* The pass on the tree the main loop built.  replace() is called on every
\* value of an object, and a nested item has no replace(); a value stored
\* in the tree itself has no keys().
PostPass(st) ==
    IF st.err # "" THEN [tree |-> <<>>, err |-> st.err]
    ELSE IF st.bad_top
            \/ \E i \in DOMAIN st.tree :
                  Has(st.tree[i][2], "object") /\ HasNested(st.tree[i][2])
    THEN [tree |-> <<>>, err |-> E_AttributeError]
    ELSE LET normalized ==
                 [i \in DOMAIN st.tree |->
                     <<st.tree[i][1],
                       IF Has(st.tree[i][2], "object")
                       THEN NormalizeObject(st.tree[i][2])
                       ELSE st.tree[i][2]>>]
         IN [tree |-> SelectSeq(normalized,
                                LAMBDA e : ~(Has(e[2], "object")
                                             /\ objects_to_delete(e[2]))),
             err |-> ""]

_parse_token_list(token_list) == PostPass(ParseLoop(ParseState(token_list)))

\* parse(input_str, file_path=False)
parse(input_str) == _parse_token_list(_tokenize_glm(input_str))

(***************************************************************************)
(* Loaded models: the trees parse() returns for two small model texts.     *)
(*   ModelA:  module mysql;                                                *)
(*            object load {name load_1; phases ABC; length 10;}            *)
(*            object load {phases A;}                                      *)
(*   ModelB:  object recorder {name rec_0;}   (parse deletes recorders)    *)
(*            #set minimum_timestep=60                                     *)
(*            clock {timezone EST5EDT; stoptime '2001-01-01 01:00:00';}    *)
(*            object meter {name meter_1;}                                 *)
(***************************************************************************)
ModelA == <<
    <<0, << <<"omftype", T("module")>>, <<"argument", T("mysql")>> >> >>,
    <<1, << <<"object", T("load")>>, <<"name", T("load_1")>>,
            <<"phases", T("ABC")>>, <<"length", T("10")>> >> >>,
    <<2, << <<"object", T("load")>>, <<"phases", T("A")>> >> >> >>

ModelB == <<
    <<1, << <<"#set", T("minimum_timestep=60")>> >> >>,
    <<2, << <<"clock", T("clock")>>, <<"timezone", T("EST5EDT")>>,
            <<"stoptime", T("'2001-01-01 01:00:00'")>> >> >>,
    <<3, << <<"object", T("meter")>>, <<"name", T("meter_1")>> >> >> >>

ParsedModels == {ModelA, ModelB}

(***************************************************************************)
(* GLMManager.__init__: the tree as parsed, the counters from its keys,    *)
(* the index from _map_model_dict.                                         *)
(***************************************************************************)
Load(tree) ==
        LET h == [r \in 1..Len(tree) |-> tree[r][2]]
            md == [i \in 1..Len(tree) |-> <<tree[i][1], i>>]
            mapped == _map_model_dict(md, h)
        IN /\ mapped.err = ""
           /\ heap = h
           /\ model_dict = md
           /\ model_map = mapped.mm
           /\ append_key = Max(Keys(md)) + 1
           /\ prepend_key = Min(Keys(md)) - 1
           /\ op = "__init__"
           /\ err = ""
           /\ ret = ""
           /\ lo = Min(Keys(md))
           /\ hi = Max(Keys(md))
           /\ n_append = 0
           /\ n_prepend = 0
           /\ n_remove = 0
           /\ glm_text = ""
           /\ glm_tree = <<>>
           /\ glm_again = <<>>
           /\ main_loop = <<>>

Init == \E tree \in ParsedModels : Load(tree)

(***************************************************************************)
(* The manager object.  Each method is an operator from the manager's      *)
(* state (and the call's arguments) to the state it leaves and the message *)
(* it raised; a method that raises half-way leaves what it had already     *)
(* written.                                                                *)
(***************************************************************************)
Self == [heap |-> heap, model_dict |-> model_dict, model_map |-> model_map,
         append_key |-> append_key, prepend_key |-> prepend_key]

\* The reference of a newly created dict object.
NewRef(h) == IF DOMAIN h = {} THEN 1 ELSE Max(DOMAIN h) + 1

\* The references the manager still holds, in the tree or in the index.
Reachable(self) ==
    {self.model_dict[i][2] : i \in DOMAIN self.model_dict}
    \cup (IF Len(self.model_map.clock) > 0 THEN {self.model_map.clock[2]} ELSE {})
    \cup {self.model_map.module[i][2][2] : i \in DOMAIN self.model_map.module}
    \cup UNION {{self.model_map.object[i][2][j][2][2] :
                    j \in DOMAIN self.model_map.object[i][2]} :
                i \in DOMAIN self.model_map.object}
    \cup {self.model_map.object_unnamed[i][2] :
            i \in DOMAIN self.model_map.object_unnamed}

\* A dict object nothing refers to any more is gone.
Collect(self) ==
    [self EXCEPT !.heap = [r \in DOMAIN self.heap \cap Reachable(self) |->
                             self.heap[r]]]

\* The loop of add_item that casts every value to text.
CastValues(item_dict) ==
    [i \in DOMAIN item_dict |-> <<item_dict[i][1], str(item_dict[i][2])>>]

_update_append_key(self) == [self EXCEPT !.append_key = @ + 1]

\* Mutant: the prepend key moves up instead of down.
_update_prepend_key_up(self) == [self EXCEPT !.prepend_key = @ + 1]

_update_prepend_key(self) == [self EXCEPT !.prepend_key = @ - 1]

\* Mutant: the tree is given a copy of the dict that the index refers to.
_add_object_copying(self, object_dict) ==
    LET ref == NewRef(self.heap)
        res == _add_object_to_map(self.model_map, self.append_key, ref,
                                  object_dict)
        mapped == [self EXCEPT !.model_map = res.mm]
    IN IF res.err # "" THEN [self |-> mapped, err |-> res.err]
       ELSE [self |-> [mapped EXCEPT
                         !.heap = @ @@ (ref :> object_dict)
                                    @@ ((ref + 1) :> object_dict),
                         !.model_dict = Put(@, self.append_key, ref + 1),
                         !.append_key = @ + 1],
             err |-> ""]

_add_object(self, object_dict) ==
    LET ref == NewRef(self.heap)
        res == _add_object_to_map(self.model_map, self.append_key, ref,
                                  object_dict)
        mapped == [self EXCEPT !.model_map = res.mm]
    IN IF res.err # "" THEN [self |-> mapped, err |-> res.err]
       ELSE [self |-> _update_append_key(
                        [mapped EXCEPT
                           !.heap = @ @@ (ref :> object_dict),
                           !.model_dict = Put(@, self.append_key, ref)]),
             err |-> ""]

\* Mutant: the item is put in the tree before it is mapped.
_add_non_object_tree_first(self, item_type, item_dict) ==
    LET ref == NewRef(self.heap)
        added == [self EXCEPT !.heap = @ @@ (ref :> item_dict),
                              !.model_dict = Put(@, self.prepend_key, ref)]
        res == CASE item_type = "clock" ->
                      _add_clock_to_map(self.model_map, self.prepend_key, ref)
                 [] item_type = "module" ->
                      _add_module_to_map(self.model_map, self.prepend_key, ref,
                                         item_dict)
                 [] item_type \in no_map -> [mm |-> self.model_map, err |-> ""]
                 [] OTHER -> [mm |-> self.model_map, err |-> E_NoAddNonObject]
    IN IF res.err # "" THEN [self |-> added, err |-> res.err]
       ELSE [self |-> [added EXCEPT !.model_map = res.mm,
                                    !.prepend_key = @ - 1],
             err |-> ""]

_add_non_object(self, item_type, item_dict) ==
    LET ref == NewRef(self.heap)
        res == CASE item_type = "clock" ->
                      _add_clock_to_map(self.model_map, self.prepend_key, ref)
                 [] item_type = "module" ->
                      _add_module_to_map(self.model_map, self.prepend_key, ref,
                                         item_dict)
                 [] item_type \in no_map -> [mm |-> self.model_map, err |-> ""]
                 [] OTHER -> [mm |-> self.model_map, err |-> E_NoAddNonObject]
        mapped == [self EXCEPT !.model_map = res.mm]
    IN IF res.err # "" THEN [self |-> mapped, err |-> res.err]
       ELSE [self |-> _update_prepend_key(
                        [mapped EXCEPT
                           !.heap = @ @@ (ref :> item_dict),
                           !.model_dict = Put(@, self.prepend_key, ref)]),
             err |-> ""]

add_item(self, item_dict) ==
    LET item_type == _get_item_type(item_dict)
        cast == CastValues(item_dict)
    IN IF item_type = E_UnknownType THEN [self |-> self, err |-> E_UnknownType]
       ELSE IF item_type = "object" THEN _add_object(self, cast)
       ELSE IF item_type \in non_objects
       THEN _add_non_object(self, item_type, cast)
       ELSE [self |-> self, err |-> E_NoAddMethod]

(***************************************************************************)
(* Lookups in the index: the reference found, or the message raised.       *)
(***************************************************************************)
_lookup_object(mm, object_type, object_name) ==
    IF Has(mm.object, object_type)
       /\ Has(Get(mm.object, object_type), object_name)
    THEN [ref |-> Get(Get(mm.object, object_type), object_name)[2], err |-> ""]
    ELSE [ref |-> 0, err |-> E_NoObject]

_lookup_module(mm, module_name) ==
    IF Has(mm.module, module_name)
    THEN [ref |-> Get(mm.module, module_name)[2], err |-> ""]
    ELSE [ref |-> 0, err |-> E_NoModule]

_lookup_clock(mm) ==
    IF Len(mm.clock) >= 2
    THEN [ref |-> mm.clock[2], err |-> ""]
    ELSE [ref |-> 0, err |-> E_NoClock]

\* self.model_map['object'][obj_type][obj_name][1]: the reference of the
\* item, or the KeyError of the first lookup that fails.
ObjectLookup(mm, obj_type, obj_name) ==
    IF ~Has(mm.object, obj_type) THEN [obj |-> 0, err |-> E_KeyError]
    ELSE IF ~Has(Get(mm.object, obj_type), obj_name)
    THEN [obj |-> 0, err |-> E_KeyError]
    ELSE [obj |-> Get(Get(mm.object, obj_type), obj_name)[2], err |-> ""]

\* _find_object without the except clause.
_find_object_uncaught(self, obj_type, obj_name) ==
    ObjectLookup(self.model_map, obj_type, obj_name)

\* GLMManager._find_object: the reference of the item, or 0 for None.
_find_object(self, obj_type, obj_name) ==
    LET found == ObjectLookup(self.model_map, obj_type, obj_name)
    IN IF found.err = E_KeyError THEN [obj |-> 0, err |-> ""] ELSE found

(***************************************************************************)
(* modify_item                                                             *)
(***************************************************************************)
\* _modify_item's loop over the first n fields of update_dict.
RECURSIVE ModifyPrefix(_, _, _)
ModifyPrefix(item, update_dict, n) ==
    IF n = 0 THEN item
    ELSE Put(ModifyPrefix(item, update_dict, n - 1),
             update_dict[n][1], str(update_dict[n][2]))

\* Mutant: the item is replaced by the update instead of updated with it.
_modify_item_replacing(item, update_dict) == CastValues(update_dict)

_modify_item(item, update_dict) == ModifyPrefix(item, update_dict, Len(update_dict))

\* ModuleToBlockForm that leaves the keyword and the argument in place.
ModuleToBlockForm_keeping_keyword(module) ==
    Put(module, "module", Get(module, "argument"))

\* The rewrite of a module parsed as `module X;` into the block form.
ModuleToBlockForm(module) ==
    Pop(Pop(Put(module, "module", Get(module, "argument")), "omftype"),
        "argument")

modify_item(self, item_dict) ==
    LET item_type == _get_item_type(item_dict)
    IN CASE item_type = E_UnknownType -> [self |-> self, err |-> E_UnknownType]
         [] item_type = "object" ->
              IF ~Has(item_dict, "name")
              THEN [self |-> self, err |-> E_NameNeeded]
              ELSE LET found == _lookup_object(self.model_map,
                                               Get(item_dict, "object"),
                                               Get(item_dict, "name"))
                       update_dict == Pop(Pop(item_dict, "object"), "name")
                   IN IF found.err # "" THEN [self |-> self, err |-> found.err]
                      ELSE [self |-> [self EXCEPT !.heap[found.ref] =
                                        _modify_item(@, update_dict)],
                            err |-> ""]
         [] item_type = "clock" ->
              LET found == _lookup_clock(self.model_map)
                  update_dict == Pop(item_dict, "clock")
              IN IF found.err # "" THEN [self |-> self, err |-> found.err]
                 ELSE [self |-> [self EXCEPT !.heap[found.ref] =
                                   _modify_item(@, update_dict)],
                       err |-> ""]
         [] item_type = "module" ->
              LET found == _lookup_module(self.model_map, Get(item_dict, "module"))
                  update_dict == Pop(item_dict, "module")
                  module == self.heap[found.ref]
              IN IF found.err # "" THEN [self |-> self, err |-> found.err]
                 ELSE IF Has(module, "omftype") /\ ~Has(module, "argument")
                 THEN [self |-> self, err |-> E_KeyError]
                 ELSE [self |-> [self EXCEPT !.heap[found.ref] =
                                   _modify_item(
                                     IF Has(module, "omftype")
                                     THEN ModuleToBlockForm(module) ELSE module,
                                     update_dict)],
                       err |-> ""]
         [] OTHER -> [self |-> self, err |-> E_CannotModify]

(***************************************************************************)
(* remove_properties_from_item                                             *)
(***************************************************************************)
\* _remove_from_item's loop over the first n names of remove_list: each name
\* is popped in turn, and the loop raises at the first one that is absent.
RECURSIVE RemovePrefix(_, _, _)
RemovePrefix(item, remove_list, n) ==
    IF n = 0 THEN [item |-> item, err |-> ""]
    ELSE LET before == RemovePrefix(item, remove_list, n - 1)
         IN IF before.err # "" THEN before
            ELSE IF Has(before.item, remove_list[n])
            THEN [item |-> Pop(before.item, remove_list[n]), err |-> ""]
            ELSE [item |-> before.item, err |-> E_NoField \o remove_list[n]]

\* Mutant: the loop returns after the first name.
_remove_from_item_first_only(item, remove_list) ==
    RemovePrefix(item, remove_list, IF Len(remove_list) > 0 THEN 1 ELSE 0)

_remove_from_item(item, remove_list) ==
    RemovePrefix(item, remove_list, Len(remove_list))

remove_properties_from_item(self, item_dict, property_list) ==
    LET item_type == _get_item_type(item_dict)
        found == CASE item_type = "object" /\ Has(item_dict, "name") ->
                        _lookup_object(self.model_map, Get(item_dict, "object"),
                                       Get(item_dict, "name"))
                   [] item_type = "object" -> [ref |-> 0, err |-> E_NameNeeded]
                   [] item_type = "clock" -> _lookup_clock(self.model_map)
                   [] item_type = "module" ->
                        _lookup_module(self.model_map, Get(item_dict, "module"))
                   [] item_type = E_UnknownType ->
                        [ref |-> 0, err |-> E_UnknownType]
                   [] OTHER -> [ref |-> 0, err |-> E_CannotRemoveProps]
    IN IF found.err # "" THEN [self |-> self, err |-> found.err]
       ELSE LET res == _remove_from_item(self.heap[found.ref], property_list)
            IN [self |-> [self EXCEPT !.heap[found.ref] = res.item],
                err |-> res.err]

(***************************************************************************)
(* remove_item                                                             *)
(***************************************************************************)
\* Mutant of the object branch: the type's sub-dict is fetched with
\* setdefault, so a type the index does not know gets an empty entry before
\* the lookup of the name raises.
RemoveObject_setdefault(self, item_dict) ==
    LET mm == self.model_map
    IN IF ~Has(item_dict, "name") THEN [self |-> self, err |-> E_Unnamed]
       ELSE LET obj_type == Get(item_dict, "object")
                obj_name == Get(item_dict, "name")
                mm1 == IF Has(mm.object, obj_type) THEN mm
                       ELSE [mm EXCEPT !.object = Put(@, obj_type, <<>>)]
            IN IF ~Has(Get(mm1.object, obj_type), obj_name)
               THEN [self |-> [self EXCEPT !.model_map = mm1],
                     err |-> E_KeyError]
               ELSE LET key == Get(Get(mm.object, obj_type), obj_name)[1]
                    IN [self |-> Collect([self EXCEPT
                           !.model_dict = Pop(@, key),
                           !.model_map.object =
                              Put(@, obj_type, Pop(Get(@, obj_type), obj_name))]),
                        err |-> ""]

\* Mutant of the object branch: the object leaves the index and stays in
\* the tree.
RemoveObject_index_only(self, item_dict) ==
    LET mm == self.model_map
    IN IF ~Has(item_dict, "name") THEN [self |-> self, err |-> E_Unnamed]
       ELSE LET obj_type == Get(item_dict, "object")
                obj_name == Get(item_dict, "name")
            IN IF ~(Has(mm.object, obj_type)
                    /\ Has(Get(mm.object, obj_type), obj_name))
               THEN [self |-> self, err |-> E_KeyError]
               ELSE [self |-> [self EXCEPT
                                !.model_map.object =
                                   Put(@, obj_type,
                                       Pop(Get(@, obj_type), obj_name))],
                     err |-> ""]

\* The object branch of remove_item.
RemoveObject(self, item_dict) ==
    LET mm == self.model_map
    IN IF ~Has(item_dict, "name") THEN [self |-> self, err |-> E_Unnamed]
       ELSE LET obj_type == Get(item_dict, "object")
                obj_name == Get(item_dict, "name")
            IN IF ~(Has(mm.object, obj_type)
                    /\ Has(Get(mm.object, obj_type), obj_name))
               THEN [self |-> self, err |-> E_KeyError]
               ELSE LET key == Get(Get(mm.object, obj_type), obj_name)[1]
                    IN IF ~Has(self.model_dict, key)
                       THEN [self |-> self, err |-> E_KeyError]
                       ELSE [self |-> Collect([self EXCEPT
                                !.model_dict = Pop(@, key),
                                !.model_map.object =
                                   Put(@, obj_type,
                                       Pop(Get(@, obj_type), obj_name))]),
                             err |-> ""]

\* Mutant: the item leaves the tree and stays in the index.
remove_item_tree_only(self, item_dict) ==
    LET item_type == _get_item_type(item_dict)
        mm == self.model_map
    IN CASE item_type = E_UnknownType -> [self |-> self, err |-> E_UnknownType]
         [] item_type = "object" ->
              IF ~Has(item_dict, "name") THEN [self |-> self, err |-> E_Unnamed]
              ELSE LET found == _lookup_object(mm, Get(item_dict, "object"),
                                               Get(item_dict, "name"))
                   IN IF found.err # "" THEN [self |-> self, err |-> E_KeyError]
                      ELSE [self |-> [self EXCEPT !.model_dict =
                               Pop(@, Get(Get(mm.object, Get(item_dict, "object")),
                                          Get(item_dict, "name"))[1])],
                            err |-> ""]
         [] item_type = "clock" ->
              LET found == _lookup_clock(mm)
              IN IF found.err # "" THEN [self |-> self, err |-> found.err]
                 ELSE [self |-> [self EXCEPT !.model_dict = Pop(@, mm.clock[1])],
                       err |-> ""]
         [] item_type = "module" ->
              LET module_name == Get(item_dict, "module")
                  found == _lookup_module(mm, module_name)
              IN IF found.err # "" THEN [self |-> self, err |-> found.err]
                 ELSE [self |-> [self EXCEPT !.model_dict =
                          Pop(@, Get(mm.module, module_name)[1])],
                       err |-> ""]
         [] OTHER -> [self |-> self, err |-> E_CannotRemove]

remove_item(self, item_dict) ==
    LET item_type == _get_item_type(item_dict)
        mm == self.model_map
    IN CASE item_type = E_UnknownType -> [self |-> self, err |-> E_UnknownType]
         [] item_type = "object" -> RemoveObject(self, item_dict)
         [] item_type = "clock" ->
              LET found == _lookup_clock(mm)
              IN IF found.err # "" THEN [self |-> self, err |-> found.err]
                 ELSE IF ~Has(self.model_dict, mm.clock[1])
                 THEN [self |-> self, err |-> E_KeyError]
                 ELSE [self |-> Collect([self EXCEPT
                          !.model_dict = Pop(@, mm.clock[1]),
                          !.model_map.clock = <<>>]),
                       err |-> ""]
         [] item_type = "module" ->
              LET module_name == Get(item_dict, "module")
                  found == _lookup_module(mm, module_name)
              IN IF found.err # "" THEN [self |-> self, err |-> found.err]
                 ELSE IF ~Has(self.model_dict, Get(mm.module, module_name)[1])
                 THEN [self |-> self, err |-> E_KeyError]
                 ELSE [self |-> Collect([self EXCEPT
                          !.model_dict = Pop(@, Get(mm.module, module_name)[1]),
                          !.model_map.module = Pop(@, module_name)]),
                       err |-> ""]
         [] OTHER -> [self |-> self, err |-> E_CannotRemove]

(***************************************************************************)
(* The serializer.  A rendering is [text, err, warned]: the text produced, *)
(* the exception raised ("" when none), and whether a truncation warning   *)
(* was issued.  _gather_key_values renders a nested item (an integer key)  *)
(* by a call back into _dict_to_string.                                    *)
(***************************************************************************)
\* Longest name or parent value written in full (the code's literal 62).
NameLimit == 62

Rendered(text) == [text |-> text, err |-> "", warned |-> FALSE]
Raised(e) == [text |-> "", err |-> e, warned |-> FALSE]

RECURSIVE _dict_to_string(_)

\* GatherField with the length test made on every field.
GatherField_truncating_all(key, v, key_to_avoid) ==
    IF IsIntKey(key) THEN _dict_to_string(v.d)
    ELSE IF key = key_to_avoid THEN Rendered("")
    ELSE IF key = "comment"
    THEN (IF v.ty = "str" THEN Rendered(v.s \o "\n") ELSE Raised(E_TypeError))
    ELSE (IF v.ty # "str" THEN Raised(E_TypeError)
          ELSE IF Len(v.s) <= NameLimit
          THEN Rendered("\t" \o key \o " " \o v.s \o ";\n")
          ELSE [text |-> "\t" \o key \o " " \o SubSeq(v.s, 1, NameLimit)
                         \o "; // truncated from " \o v.s \o "\n",
                err |-> "", warned |-> TRUE])

\* One field of _gather_key_values' loop.
GatherField(key, v, key_to_avoid) ==
    IF IsIntKey(key) THEN _dict_to_string(v.d)
    ELSE IF key = key_to_avoid THEN Rendered("")
    ELSE IF key = "comment"
    THEN (IF v.ty = "str" THEN Rendered(v.s \o "\n") ELSE Raised(E_TypeError))
    ELSE IF key = "name" \/ key = "parent"
    THEN (IF v.ty # "str" THEN Raised(E_TypeError)
          ELSE IF Len(v.s) <= NameLimit
          THEN Rendered("\t" \o key \o " " \o v.s \o ";\n")
          ELSE [text |-> "\t" \o key \o " " \o SubSeq(v.s, 1, NameLimit)
                         \o "; // truncated from " \o v.s \o "\n",
                err |-> "", warned |-> TRUE])
    ELSE Rendered("\t" \o key \o " " \o v.s \o ";\n")

\* _gather_key_values over the first n fields of in_dict.
RECURSIVE GatherPrefix(_, _, _)
GatherPrefix(in_dict, key_to_avoid, n) ==
    IF n = 0 THEN Rendered("")
    ELSE LET before == GatherPrefix(in_dict, key_to_avoid, n - 1)
             field == GatherField(in_dict[n][1], in_dict[n][2], key_to_avoid)
         IN IF before.err # "" THEN before
            ELSE IF field.err # "" THEN field
            ELSE [text |-> before.text \o field.text, err |-> "",
                  warned |-> before.warned \/ field.warned]

_gather_key_values(in_dict, key_to_avoid) ==
    GatherPrefix(in_dict, key_to_avoid, Len(in_dict))

\* head + the gathered fields + tail
Block(head, in_dict, key_to_avoid, tail) ==
    LET body == _gather_key_values(in_dict, key_to_avoid)
    IN IF body.err # "" THEN body
       ELSE [body EXCEPT !.text = head \o @ \o tail]

\* Every value among the given fields of in_dict is text.
AllText(in_dict, fields) ==
    \A f \in fields : Has(in_dict, f) => Get(in_dict, f).ty = "str"

\* "\t<field> <value>;\n" of a clock field that is present, else nothing
ClockField(in_dict, field) ==
    IF Has(in_dict, field)
    THEN "\t" \o field \o " " \o Get(in_dict, field).s \o ";\n"
    ELSE ""

\* The clock written by _gather_key_values, as the line commented out in the
\* code has it.
clock_string_gathered(in_dict) ==
    Block("clock {\n", in_dict, "clock", "};\n")

\* clock_string: the three fields written out explicitly
clock_string(in_dict) ==
    IF ~AllText(in_dict, {"timezone", "starttime", "stoptime"})
    THEN Raised(E_TypeError)
    ELSE Rendered("clock {\n" \o ClockField(in_dict, "timezone")
                  \o ClockField(in_dict, "starttime")
                  \o ClockField(in_dict, "stoptime") \o "}\n")

\* The paired declarations of a class with variable_types and variable_names.
RECURSIVE ClassPairs(_, _, _)
ClassPairs(types, names, n) ==
    IF n = 0 THEN ""
    ELSE ClassPairs(types, names, n - 1)
         \o "\t" \o SubSeq(types, n, n) \o " " \o SubSeq(names, n, n) \o ";\n"

_dict_to_string(in_dict) ==
    CASE Has(in_dict, "omftype") ->
           IF ~Has(in_dict, "argument") THEN Raised(E_KeyError)
           ELSE IF ~AllText(in_dict, {"omftype", "argument"})
           THEN Raised(E_TypeError)
           ELSE Rendered(Get(in_dict, "omftype").s \o " "
                         \o Get(in_dict, "argument").s \o ";")
      [] Has(in_dict, "module") ->
           IF ~AllText(in_dict, {"module"}) THEN Raised(E_TypeError)
           ELSE Block("module " \o Get(in_dict, "module").s \o " {\n",
                      in_dict, "module", "}\n")
      [] Has(in_dict, "clock") -> clock_string(in_dict)
      [] Has(in_dict, "object") /\ Get(in_dict, "object") = T("schedule") ->
           IF ~Has(in_dict, "name") \/ ~Has(in_dict, "cron")
           THEN Raised(E_KeyError)
           ELSE IF ~AllText(in_dict, {"name", "cron"}) THEN Raised(E_TypeError)
           ELSE Rendered("schedule " \o Get(in_dict, "name").s \o " {\n"
                         \o Get(in_dict, "cron").s \o "\n};\n")
      [] Has(in_dict, "object") ->
           IF ~AllText(in_dict, {"object"}) THEN Raised(E_TypeError)
           ELSE Block("object " \o Get(in_dict, "object").s \o " {\n",
                      in_dict, "object", "};\n")
      [] Has(in_dict, "omfEmbeddedConfigObject") ->
           IF ~AllText(in_dict, {"omfEmbeddedConfigObject"})
           THEN Raised(E_TypeError)
           ELSE Block(Get(in_dict, "omfEmbeddedConfigObject").s \o " {\n",
                      in_dict, "omfEmbeddedConfigObject", "};\n")
      [] Has(in_dict, "#include") ->
           IF ~AllText(in_dict, {"#include"}) THEN Raised(E_TypeError)
           ELSE Rendered("#include " \o Get(in_dict, "#include").s)
      [] Has(in_dict, "#define") ->
           IF ~AllText(in_dict, {"#define"}) THEN Raised(E_TypeError)
           ELSE Rendered("#define " \o Get(in_dict, "#define").s \o "\n")
      [] Has(in_dict, "#set") ->
           IF ~AllText(in_dict, {"#set"}) THEN Raised(E_TypeError)
           ELSE Rendered("#set " \o Get(in_dict, "#set").s)
      [] Has(in_dict, "class") ->
           IF ~AllText(in_dict, {"class", "variable_types", "variable_names"})
           THEN Raised(E_TypeError)
           ELSE IF Has(in_dict, "variable_types") /\ Has(in_dict, "variable_names")
                   /\ Len(Get(in_dict, "variable_types").s)
                        = Len(Get(in_dict, "variable_names").s)
           THEN Rendered("class " \o Get(in_dict, "class").s \o " {\n"
                         \o ClassPairs(Get(in_dict, "variable_types").s,
                                       Get(in_dict, "variable_names").s,
                                       Len(Get(in_dict, "variable_types").s))
                         \o "}\n")
           ELSE Block("class " \o Get(in_dict, "class").s \o " {\n",
                      in_dict, "class", "}\n")
      \* no branch matches: the function returns None, and the caller's
      \* None + "\n" raises
      [] OTHER -> Raised(E_TypeError)

\* sorted(keys, key=int): insertion of each key of the list, in list order,
\* into the sorted list of the keys before it.
RECURSIVE Insert(_, _)
Insert(sorted_keys, k) ==
    IF sorted_keys = <<>> THEN <<k>>
    ELSE IF k < Head(sorted_keys) THEN <<k>> \o sorted_keys
    ELSE <<Head(sorted_keys)>> \o Insert(Tail(sorted_keys), k)

RECURSIVE SortPrefix(_, _)
SortPrefix(key_list, n) ==
    IF n = 0 THEN <<>> ELSE Insert(SortPrefix(key_list, n - 1), key_list[n])

\* Mutant: the keys are left in the order of the dict.
sorted_not(key_list) == key_list

sorted(key_list) == SortPrefix(key_list, Len(key_list))

\* sorted_write's loop over the first n of the sorted keys.
RECURSIVE WritePrefix(_, _, _, _)
WritePrefix(in_tree, h, sorted_keys, n) ==
    IF n = 0 THEN Rendered("")
    ELSE LET before == WritePrefix(in_tree, h, sorted_keys, n - 1)
             item == _dict_to_string(h[Get(in_tree, sorted_keys[n])])
         IN IF before.err # "" THEN before
            ELSE IF item.err # "" THEN item
            ELSE [text |-> before.text \o item.text \o "\n", err |-> "",
                  warned |-> before.warned \/ item.warned]

sorted_write(in_tree, h) ==
    LET sorted_keys == sorted([i \in DOMAIN in_tree |-> in_tree[i][1]])
    IN WritePrefix(in_tree, h, sorted_keys, Len(sorted_keys))

\* write_model, were a name or parent cut for the text also cut in the item.
write_model_truncating_in_place(self) ==
    LET written == sorted_write(self.model_dict, self.heap)
        cut(field) ==
            IF field[1] \in {"name", "parent"} /\ field[2].ty = "str"
               /\ Len(field[2].s) > NameLimit
            THEN <<field[1], T(SubSeq(field[2].s, 1, NameLimit))>>
            ELSE field
    IN [text |-> written.text, err |-> written.err, warned |-> written.warned,
        self |-> [self EXCEPT !.heap =
                     [r \in DOMAIN @ |-> [i \in DOMAIN @[r] |-> cut(@[r][i])]]]]

\* write_model: the text handed to the file, or the exception of
\* sorted_write, and the manager as the call leaves it: sorted_write,
\* _dict_to_string and _gather_key_values read in_tree and in_dict and
\* assign to neither.
write_model(self) ==
    LET written == sorted_write(self.model_dict, self.heap)
    IN [text |-> written.text, err |-> written.err, warned |-> written.warned,
        self |-> self]

(***************************************************************************)
(* The calls the model makes.                                              *)
(***************************************************************************)
Obj(type, name, fields) ==
    << <<"object", T(type)>>, <<"name", T(name)>> >> \o fields

AddInputs == {
    Obj("load", "load_1", << <<"phases", T("B")>> >>),
    << <<"object", T("recorder")>>, <<"interval", N("30")>> >>,
    << <<"clock", T("clock")>>, <<"timezone", T("UTC0")>> >>,
    << <<"module", T("mysql")>> >>,
    << <<"#set", T("randomseed=42")>> >>,
    << <<"#define", T("VSOURCE=66400")>> >>,
    << <<"omftype", T("#set")>>, <<"argument", T("profiler=1")>> >>,
    << <<"foo", T("bar")>>, <<"baz", N("42")>> >> }

ModifyInputs == {
    Obj("load", "load_1", << <<"phases", T("B")>>, <<"groupid", N("7")>> >>),
    Obj("load", "load_9", << <<"phases", T("B")>> >>),
    << <<"clock", T("clock")>>, <<"timezone", T("EST+5EDT")>> >>,
    << <<"module", T("mysql")>>, <<"port", N("3306")>> >>,
    << <<"module", T("powerflow")>>, <<"solver_method", T("FBS")>> >>,
    << <<"#set", T("minimum_timestep=30.0")>> >> }

RemovePropertiesInputs == {
    <<Obj("load", "load_1", <<>>), <<"phases", "length">>>>,
    <<Obj("load", "load_9", <<>>), <<"phases">>>>,
    << << <<"clock", T("clock")>> >>, <<"stoptime">> >>,
    << << <<"module", T("mysql")>> >>, <<"port">> >>,
    << << <<"#set", T("randomseed=42")>> >>, <<"#set">> >> }

RemoveInputs == {
    Obj("load", "load_1", <<>>),
    Obj("load", "load_9", <<>>),
    << <<"object", T("load")>> >>,
    << <<"clock", T("clock")>> >>,
    << <<"module", T("mysql")>> >>,
    << <<"module", T("powerflow")>> >>,
    << <<"#set", T("randomseed=42")>> >> }

\* The manager's state after a call, with the call's name and outcome.
Commit(res, name) ==
    /\ heap' = res.self.heap
    /\ model_dict' = res.self.model_dict
    /\ model_map' = res.self.model_map
    /\ append_key' = res.self.append_key
    /\ prepend_key' = res.self.prepend_key
    /\ op' = name
    /\ err' = res.err
    /\ ret' = ""
    /\ UNCHANGED texts

\* A call of add_item.
AddCall(item_dict) ==
    LET res == add_item(Self, item_dict)
        appended == res.err = "" /\ _get_item_type(item_dict) = "object"
        prepended == res.err = "" /\ _get_item_type(item_dict) # "object"
    IN /\ Commit(res, "add_item")
       /\ n_append' = IF appended THEN n_append + 1 ELSE n_append
       /\ n_prepend' = IF prepended THEN n_prepend + 1 ELSE n_prepend
       /\ UNCHANGED <<lo, hi, n_remove>>

\* add_item, while fewer than max_adds adds have succeeded.
AddWithin(item_dict, max_adds) ==
    /\ add_item(Self, item_dict).err = "" => n_append + n_prepend < max_adds
    /\ AddCall(item_dict)

AddItem(item_dict) == AddWithin(item_dict, MaxAdds)

ModifyItem(item_dict) ==
    /\ Commit(modify_item(Self, item_dict), "modify_item")
    /\ UNCHANGED <<lo, hi, n_append, n_prepend, n_remove>>

RemovePropertiesFromItem(item_dict, property_list) ==
    /\ Commit(remove_properties_from_item(Self, item_dict, property_list),
              "remove_properties_from_item")
    /\ UNCHANGED <<lo, hi, n_append, n_prepend, n_remove>>

RemoveItem(item_dict) ==
    LET res == remove_item(Self, item_dict)
    IN /\ Commit(res, "remove_item")
       /\ n_remove' = IF res.err = "" THEN n_remove + 1 ELSE n_remove
       /\ UNCHANGED <<lo, hi, n_append, n_prepend>>

WriteModel ==
    LET res == write_model(Self)
    IN /\ op' = "write_model"
       /\ err' = res.err
       /\ ret' = res.text
       /\ heap' = res.self.heap
       /\ model_dict' = res.self.model_dict
       /\ model_map' = res.self.model_map
       /\ append_key' = res.self.append_key
       /\ prepend_key' = res.self.prepend_key
       /\ UNCHANGED <<lo, hi, n_append, n_prepend, n_remove>>
       /\ UNCHANGED texts

Next ==
    \/ \E item_dict \in AddInputs : AddItem(item_dict)
    \/ \E item_dict \in ModifyInputs : ModifyItem(item_dict)
    \/ \E call \in RemovePropertiesInputs :
          RemovePropertiesFromItem(call[1], call[2])
    \/ \E item_dict \in RemoveInputs : RemoveItem(item_dict)
    \/ WriteModel

Spec == Init /\ [][Next]_vars

(***************************************************************************)
(* The manager under add_item, remove_item and write_model alone: the      *)
(* sequences of calls the claims about keys and statement order speak of.  *)
(***************************************************************************)
AddItemAddRemove(item_dict) == AddWithin(item_dict, MaxAddsAddRemove)

NextAddRemove ==
    \/ \E item_dict \in AddInputs : AddItemAddRemove(item_dict)
    \/ \E item_dict \in RemoveInputs : RemoveItem(item_dict)
    \/ WriteModel

SpecAddRemove == Init /\ [][NextAddRemove]_vars

(***************************************************************************)
(* The manager under all its operations, add_item and modify_item being    *)
(* called as well with an object that has a field named module, clock or   *)
(* omftype among its properties: _add_object and _modify_item (via         *)
(* _find_object) look at the fields object and name alone and store every  *)
(* other field as given.                                                   *)
(***************************************************************************)
VariantAdds == {
    Obj("load", "load_2", << <<"module", T("powerflow")>> >>) }

VariantModifies == {
    Obj("load", "load_1", << <<"clock", T("clock")>> >>),
    Obj("meter", "meter_1", << <<"omftype", T("module")>> >>) }

NextVariant ==
    \/ Next
    \/ \E item_dict \in VariantAdds : AddItem(item_dict)
    \/ \E item_dict \in VariantModifies : ModifyItem(item_dict)

SpecVariant == Init /\ [][NextVariant]_vars

(***************************************************************************)
(* The manager under all its operations, remove_properties_from_item being *)
(* called with the fields that say which item an item is as well.          *)
(***************************************************************************)
IdentityRemovals == {
    <<Obj("load", "load_1", <<>>), <<"name">>>>,
    << << <<"module", T("mysql")>> >>, <<"module">> >>,
    << << <<"clock", T("clock")>> >>, <<"clock">> >> }

NextIdentity ==
    \/ Next
    \/ \E call \in IdentityRemovals : RemovePropertiesFromItem(call[1], call[2])

SpecIdentity == Init /\ [][NextIdentity]_vars

(***************************************************************************)
(* add_or_modify_clock and add_run_components.  Their code is not among    *)
(* the source files; they are modelled from the specification and from the *)
(* tests AddOrModifyClockTestCase and AddRunComponentsTestCase, on top of   *)
(* add_item and modify_item.                                               *)
(***************************************************************************)
\* None, and a datetime value.
None == [ty |-> "None", s |-> "None"]
datetime(year, month, day, hour, minute, second) ==
    [ty |-> "datetime", year |-> year, month |-> month, day |-> day,
     hour |-> hour, minute |-> minute, second |-> second]

\* The decimal digits of n, at least two of them: the format %02d.
Pad2(n) == IF n < 10 THEN "0" \o ToString(n) ELSE ToString(n)
\* The format %04d.
Pad4(n) ==
    IF n < 10 THEN "000" \o ToString(n)
    ELSE IF n < 100 THEN "00" \o ToString(n)
    ELSE IF n < 1000 THEN "0" \o ToString(n)
    ELSE ToString(n)

\* The date-time as the text literal 'YYYY-MM-DD HH:MM:SS'.
ClockTime(dt) ==
    T("'" \o Pad4(dt.year) \o "-" \o Pad2(dt.month) \o "-" \o Pad2(dt.day)
          \o " " \o Pad2(dt.hour) \o ":" \o Pad2(dt.minute) \o ":"
          \o Pad2(dt.second) \o "'")

\* The clock fields that were supplied, in the order starttime, stoptime,
\* timezone.
ClockUpdate(starttime, stoptime, timezone) ==
    (IF starttime = None THEN <<>> ELSE << <<"starttime", ClockTime(starttime)>> >>)
    \o (IF stoptime = None THEN <<>> ELSE << <<"stoptime", ClockTime(stoptime)>> >>)
    \o (IF timezone = None THEN <<>> ELSE << <<"timezone", timezone>> >>)

\* add_or_modify_clock that creates a clock from whatever was supplied.
add_or_modify_clock_incomplete(self, starttime, stoptime, timezone) ==
    IF \/ starttime.ty \notin {"None", "datetime"}
       \/ stoptime.ty \notin {"None", "datetime"}
       \/ timezone.ty \notin {"None", "str"}
    THEN [self |-> self, err |-> E_TypeError]
    ELSE IF starttime = None /\ stoptime = None /\ timezone = None
    THEN [self |-> self, err |-> E_ValueError]
    ELSE IF _lookup_clock(self.model_map).err = ""
    THEN modify_item(self, << <<"clock", T("clock")>> >>
                           \o ClockUpdate(starttime, stoptime, timezone))
    ELSE add_item(self, << <<"clock", T("clock")>> >>
                        \o ClockUpdate(starttime, stoptime, timezone))

add_or_modify_clock(self, starttime, stoptime, timezone) ==
    IF \/ starttime.ty \notin {"None", "datetime"}
       \/ stoptime.ty \notin {"None", "datetime"}
       \/ timezone.ty \notin {"None", "str"}
    THEN [self |-> self, err |-> E_TypeError]
    ELSE IF starttime = None /\ stoptime = None /\ timezone = None
    THEN [self |-> self, err |-> E_ValueError]
    ELSE IF _lookup_clock(self.model_map).err = ""
    THEN modify_item(self, << <<"clock", T("clock")>> >>
                           \o ClockUpdate(starttime, stoptime, timezone))
    ELSE IF starttime = None \/ stoptime = None \/ timezone = None
    THEN [self |-> self, err |-> E_ValueError]
    ELSE add_item(self, << <<"clock", T("clock")>> >>
                        \o ClockUpdate(starttime, stoptime, timezone))

\* The object types that are distributed generation.
GeneratorTypes == {T("inverter"), T("solar"), T("diesel_dg"), T("windturb_dg"),
                   T("battery")}

\* The model holds distributed generation.
HasGeneration(mm) == \E i \in DOMAIN mm.object : mm.object[i][1] \in GeneratorTypes

\* add_item(item_dict), unless a call before it has raised.
ThenAdd(res, item_dict) ==
    IF res.err # "" THEN res ELSE add_item(res.self, item_dict)

\* The items add_run_components adds, in the order of its add_item calls: the
\* last one added has the lowest key.
RunComponents(mm, v_source, profiler, minimum_timestep) ==
    (IF v_source = None THEN <<>>
     ELSE << << <<"#define", T("VSOURCE=" \o v_source.s)>> >> >>)
    \o << << <<"module", T("powerflow")>>, <<"solver_method", T("NR")>>,
             <<"line_capacitance", T("TRUE")>> >> >>
    \o (IF HasGeneration(mm) THEN << << <<"module", T("generators")>> >> >>
        ELSE <<>>)
    \o << << <<"#set", T("relax_naming_rules=1")>> >>,
          << <<"#set", T("profiler=" \o profiler.s)>> >>,
          << <<"#set", T("minimum_timestep=" \o minimum_timestep.s)>> >> >>

RECURSIVE AddAll(_, _, _)
AddAll(res, items, n) ==
    IF n = 0 THEN res ELSE ThenAdd(AddAll(res, items, n - 1), items[n])

add_run_components(self, starttime, stoptime, timezone, v_source, profiler, minimum_timestep) ==
    LET clocked == add_or_modify_clock(self, starttime, stoptime, timezone)
        items == RunComponents(self.model_map, v_source, profiler,
                               minimum_timestep)
    IN IF clocked.err # "" THEN clocked
       ELSE IF v_source.ty \notin {"None", "int", "float"}
       THEN [self |-> clocked.self, err |-> E_ValueError]
       ELSE IF profiler.ty # "int"
       THEN [self |-> clocked.self, err |-> E_TypeError]
       ELSE IF profiler.s \notin {"0", "1"}
       THEN [self |-> clocked.self, err |-> E_ValueError]
       ELSE IF minimum_timestep.ty # "int"
       THEN [self |-> clocked.self, err |-> E_TypeError]
       ELSE AddAll(clocked, items, Len(items))

(***************************************************************************)
(* The manager under add_or_modify_clock, add_run_components, remove_item  *)
(* of the clock, and _find_object.                                         *)
(*   ModelC:  object inverter {name inv_1;}                                *)
(*            object solar {name sol_1; parent inv_1;}                     *)
(***************************************************************************)
ModelC == <<
    <<0, << <<"object", T("inverter")>>, <<"name", T("inv_1")>> >> >>,
    <<1, << <<"object", T("solar")>>, <<"name", T("sol_1")>>,
            <<"parent", T("inv_1")>> >> >> >>

InitRun == \E tree \in ParsedModels \cup {ModelC} : Load(tree)

\* The values add_or_modify_clock is called with.
StartTimes == {None, datetime(2012, 1, 1, 0, 0, 0), T("2012-07-21 20:00:00")}
StopTimes == {None, datetime(2017, 6, 10, 8, 35, 12), T("2012-07-21 20:00:00")}
TimeZones == {None, T("Pacific"), N("-8")}

\* The other values add_run_components is called with.
VSources == {None, F("66395.28"), T("one thousand")}
Profilers == {N("0"), N("2"), T("0")}
MinimumTimesteps == {N("60"), F("60.1")}

\* add_or_modify_clock, while fewer than MaxRuns calls have added an item.
AddOrModifyClock(starttime, stoptime, timezone) ==
    LET res == add_or_modify_clock(Self, starttime, stoptime, timezone)
        added == Len(res.self.model_dict) - Len(model_dict)
    IN /\ added > 0 => n_prepend < MaxRuns
       /\ Commit(res, "add_or_modify_clock")
       /\ n_prepend' = IF added > 0 THEN n_prepend + 1 ELSE n_prepend
       /\ UNCHANGED <<lo, hi, n_append, n_remove>>

\* add_run_components, while fewer than MaxRuns calls have added an item.
AddRunComponents(starttime, stoptime, timezone, v_source, profiler, minimum_timestep) ==
    LET res == add_run_components(Self, starttime, stoptime, timezone,
                                  v_source, profiler, minimum_timestep)
        added == Len(res.self.model_dict) - Len(model_dict)
    IN /\ added > 0 => n_prepend < MaxRuns
       /\ Commit(res, "add_run_components")
       /\ n_prepend' = IF added > 0 THEN n_prepend + 1 ELSE n_prepend
       /\ UNCHANGED <<lo, hi, n_append, n_remove>>

RemoveClock == RemoveItem(<< <<"clock", T("clock")>> >>)

\* The types and names _find_object is called with.
FindInputs == {T("load"), T("meter"), T("recorder")}
                 \X {T("load_1"), T("meter_1"), T("Not there")}

\* _find_object(obj_type, obj_name); the result is kept as "None" or as the
\* reference of the item returned.
FindObject(obj_type, obj_name) ==
    LET res == _find_object(Self, obj_type, obj_name)
    IN /\ op' = "_find_object"
       /\ err' = res.err
       /\ ret' = IF res.obj = 0 THEN "None" ELSE ToString(res.obj)
       /\ UNCHANGED <<manager, lo, hi, n_append, n_prepend, n_remove, texts>>

NextRun ==
    \/ \E starttime \in StartTimes, stoptime \in StopTimes, timezone \in TimeZones :
          AddOrModifyClock(starttime, stoptime, timezone)
    \/ \E starttime \in StartTimes, stoptime \in StopTimes, timezone \in TimeZones,
          v_source \in VSources, profiler \in Profilers,
          minimum_timestep \in MinimumTimesteps :
          AddRunComponents(starttime, stoptime, timezone, v_source, profiler,
                           minimum_timestep)
    \/ RemoveClock
    \/ \E call \in FindInputs : FindObject(call[1], call[2])

SpecRun == InitRun /\ [][NextRun]_vars

(***************************************************************************)
(* The module-level functions and the constructor, on model texts: a text  *)
(* is parsed, the tree is written by sorted_write and the text written is  *)
(* parsed again; or a manager is constructed from the text; or a tree a    *)
(* caller built is written by sorted_write.                                *)
(***************************************************************************)
\* The statements a model text is made of.
Statements == {
    "#set minimum_timestep=60\n",
    "module mysql;\n",
    "module mysql {\n port 3306;\n}\n",
    "clock {\n stoptime '2001-01-01 01:00:00';\n tick 1;\n timezone EST5EDT;\n}\n",
    "object load {\n name load-1;\n phases ABC;\n}\n",
    "object load {\n phases A;\n}\n",
    "object fuse {\n name f1;\n}\n",
    "object fuse {\n mean_replacement_time 10;\n}\n",
    "object recorder {\n name r1;\n}\n",
    "object house {\n name h1;\n object ZIPload {\n name z1;\n };\n size 2;\n}\n",
    "class player {\n double value;\n}\n" }

\* The texts of at most n statements.
RECURSIVE Texts(_)
Texts(n) ==
    IF n = 0 THEN {""}
    ELSE Texts(n - 1) \cup {t \o s : t \in Texts(n - 1), s \in Statements}

ModelTexts == Texts(MaxStatements)

\* Values of 62 and of 63 characters.
Chars62 == "abcdefghijklmnopqrstuvwxyzabcdefghijklmnopqrstuvwxyzabcdefghij"
Chars63 == Chars62 \o "k"

\* Trees a caller hands to sorted_write.
WrittenTrees == {
    << <<0, << <<"object", T("house")>>, <<"name", T("h1")>>,
               <<IntKey(1), D(<< <<"object", T("ZIPload")>>,
                                 <<"name", T("z1")>>,
                                 <<IntKey(2), D(<< <<"object", T("x")>>,
                                                   <<"p", T("1")>> >>)>>,
                                 <<"q", T("2")>> >>)>>,
               <<"size", T("2")>> >> >> >>,
    << <<0, << <<"object", T("house")>>,
               <<IntKey(1), D(<< <<"object", T("ZIPload")>>,
                                 <<"name", T("z1")>> >>)>>,
               <<"name", T("h1")>> >> >> >>,
    << <<3, << <<"object", T("meter")>>, <<"name", T(Chars63)>>,
               <<"parent", T(Chars62)>>, <<"note", T(Chars63)>> >> >>,
       <<-1, << <<"clock", T("clock")>>, <<"starttime", T("'2001-01-01 00:00:00'")>>,
                <<"tick", T("1")>> >> >> >>,
    << <<0, << <<"object", T("meter")>>, <<"parent", T(Chars63)>>,
               <<"name", T(Chars62)>> >> >> >> }

\* sorted_write of a tree that holds its items
WriteTree(in_tree) ==
    sorted_write([i \in DOMAIN in_tree |-> <<in_tree[i][1], i>>],
                 [i \in DOMAIN in_tree |-> in_tree[i][2]])

\* GLMManager(model, model_is_path=False): the manager, or the exception
\* the constructor raised (max() of no keys raises ValueError).
GLMManager(self, model) ==
    LET parsed == parse(model)
        h == [r \in 1..Len(parsed.tree) |-> parsed.tree[r][2]]
        md == [i \in 1..Len(parsed.tree) |-> <<parsed.tree[i][1], i>>]
        mapped == _map_model_dict(md, h)
    IN IF parsed.err # "" THEN [self |-> self, err |-> parsed.err]
       ELSE IF parsed.tree = <<>> THEN [self |-> self, err |-> E_ValueError]
       ELSE IF mapped.err # "" THEN [self |-> self, err |-> mapped.err]
       ELSE [self |-> [heap |-> h, model_dict |-> md, model_map |-> mapped.mm,
                       append_key |-> Max(Keys(md)) + 1,
                       prepend_key |-> Min(Keys(md)) - 1],
             err |-> ""]

InitText ==
    /\ \/ glm_text \in ModelTexts /\ glm_tree = <<>>
       \/ glm_text = "" /\ glm_tree \in WrittenTrees
    /\ glm_again = <<>>
    /\ main_loop = <<>>
    /\ heap = <<>>
    /\ model_dict = <<>>
    /\ model_map = EmptyMap
    /\ append_key = 0
    /\ prepend_key = 0
    /\ op = ""
    /\ err = ""
    /\ ret = ""
    /\ lo = 0
    /\ hi = 0
    /\ n_append = 0
    /\ n_prepend = 0
    /\ n_remove = 0

\* parse(input_str, file_path=False)
Parse ==
    /\ op = "" /\ glm_tree = <<>>
    /\ LET res == parse(glm_text)
       IN /\ glm_tree' = res.tree
          /\ err' = res.err
    /\ op' = "parse"
    /\ UNCHANGED <<manager, ret, lo, hi, n_append, n_prepend, n_remove,
                   glm_text, glm_again, main_loop>>

\* sorted_write(tree), of the tree parsed or of the tree given
SortedWrite ==
    /\ \/ op = "parse" /\ err = ""
       \/ op = "" /\ glm_tree # <<>>
    /\ LET res == WriteTree(glm_tree)
       IN /\ ret' = res.text
          /\ err' = res.err
    /\ op' = "sorted_write"
    /\ UNCHANGED <<manager, lo, hi, n_append, n_prepend, n_remove, texts>>

\* parse(ret, file_path=False), of the text written for a parsed tree
ParseAgain ==
    /\ op = "sorted_write" /\ err = "" /\ glm_text # ""
    /\ LET res == parse(ret)
       IN /\ glm_again' = res.tree
          /\ err' = res.err
    /\ op' = "parse_again"
    /\ UNCHANGED <<manager, ret, lo, hi, n_append, n_prepend, n_remove,
                   glm_text, glm_tree, main_loop>>

\* GLMManager(model, model_is_path=False)
Construct ==
    /\ op = "" /\ glm_tree = <<>>
    /\ LET res == GLMManager(Self, glm_text)
       IN /\ heap' = res.self.heap
          /\ model_dict' = res.self.model_dict
          /\ model_map' = res.self.model_map
          /\ append_key' = res.self.append_key
          /\ prepend_key' = res.self.prepend_key
          /\ err' = res.err
    /\ op' = "GLMManager"
    /\ UNCHANGED <<ret, lo, hi, n_append, n_prepend, n_remove, texts>>

NextText == Parse \/ SortedWrite \/ ParseAgain \/ Construct

SpecText == InitText /\ [][NextText]_vars

(***************************************************************************)
(* The same functions on texts in the old syntax: object types with an id  *)
(* after a colon, values with colons and hyphens.                          *)
(***************************************************************************)
\* The statements a text in the old syntax is made of.
LegacyStatements == {
    "object node:12 {\n phases A;\n}\n",
    "object node:12 {\n name n-1;\n parent m-2;\n}\n",
    "object line:a-b {\n from n:1;\n to n-2;\n note x-y;\n}\n",
    "object load {\n name l:1;\n phases A-B;\n}\n",
    "clock {\n timezone EST-5;\n starttime '2001-01-01 00:00:00';\n}\n",
    "module m-x {\n port 1-2;\n}\n",
    "#set a-b=c:d;\n" }

\* The texts of at most n of these statements.
RECURSIVE LegacyTexts(_)
LegacyTexts(n) ==
    IF n = 0 THEN {""}
    ELSE LegacyTexts(n - 1)
            \cup {t \o l : t \in LegacyTexts(n - 1), l \in LegacyStatements}

InitLegacy ==
    /\ glm_text \in LegacyTexts(MaxStatements)
    /\ glm_tree = <<>>
    /\ glm_again = <<>>
    /\ main_loop = <<>>
    /\ heap = <<>>
    /\ model_dict = <<>>
    /\ model_map = EmptyMap
    /\ append_key = 0
    /\ prepend_key = 0
    /\ op = ""
    /\ err = ""
    /\ ret = ""
    /\ lo = 0
    /\ hi = 0
    /\ n_append = 0
    /\ n_prepend = 0
    /\ n_remove = 0

SpecLegacy == InitLegacy /\ [][NextText]_vars

(***************************************************************************)
(* The manager of a model with a name and a parent of more than 62         *)
(* characters, which write_model cuts in the text it writes.               *)
(***************************************************************************)
ModelLong == <<
    <<0, << <<"omftype", T("module")>>, <<"argument", T("mysql")>> >> >>,
    <<1, << <<"object", T("load")>>, <<"name", T("load_1")>>,
            <<"parent", T(Chars63)>>, <<"phases", T("ABC")>>,
            <<"length", T("10")>> >> >>,
    <<2, << <<"object", T("meter")>>, <<"name", T(Chars63)>> >> >> >>

InitWrite == Load(ModelLong)

SpecWrite == InitWrite /\ [][Next]_vars

(***************************************************************************)
(* The manager of a model with an object nested in a module block, as      *)
(* parse() returns it for                                                  *)
(*   object load {name load_1; phases ABC;}                                *)
(*   module mysql {port 3306; object x {name z;};}                         *)
(* under add_item, remove_item and write_model.                            *)
(***************************************************************************)
ModelNested == <<
    <<0, << <<"object", T("load")>>, <<"name", T("load_1")>>,
            <<"phases", T("ABC")>> >> >>,
    <<1, << <<"module", T("mysql")>>, <<"port", T("3306")>>,
            <<IntKey(2), D(<< <<"object", T("x")>>, <<"name", T("z")>> >>)>> >> >> >>

InitNested == Load(ModelNested)

SpecNested == InitNested /\ [][NextAddRemove]_vars

(***************************************************************************)
(* _parse_token_list pass by pass, on token lists: each pass of the main   *)
(* loop pops one full token and works with it; when the tokens are used up *)
(* or a pass has raised, the function returns the tree or raises.          *)
(***************************************************************************)
\* A token list is made of at most this many pieces, under SpecParse.
MaxPieces == 3

\* The pieces token lists are made of: well-formed statements and
\* malformed ones.
Pieces == {
    <<"object", "a", "{", "\n">>,
    <<"}", ";", "\n">>,
    <<"b", "c", ";", "\n">>,
    <<"foo", ";">>,
    <<"#set", "x=1", ";", "\n">>,
    <<"schedule", "s1", "{", "\n", "*", "1", ";", "\n", "}", "\n">>,
    <<"schedule", "s2", "{", "*", "2", "}">>,
    <<"shape", "u", "v", "\n">>,
    <<"d", "e">>,
    <<"schedule", "s3", "{", "*">>,
    <<"shape", "w">> }

\* The token lists of at most n pieces.
RECURSIVE TokenLists(_)
TokenLists(n) ==
    IF n = 0 THEN {<<>>}
    ELSE TokenLists(n - 1)
            \cup {l \o p : l \in TokenLists(n - 1), p \in Pieces}

\* _parse_token_list(token_list) is entered: lines 102-108.
InitParse ==
    /\ main_loop \in {ParseState(l) : l \in TokenLists(MaxPieces)}
    /\ glm_text = ""
    /\ glm_tree = <<>>
    /\ glm_again = <<>>
    /\ heap = <<>>
    /\ model_dict = <<>>
    /\ model_map = EmptyMap
    /\ append_key = 0
    /\ prepend_key = 0
    /\ op = ""
    /\ err = ""
    /\ ret = ""
    /\ lo = 0
    /\ hi = 0
    /\ n_append = 0
    /\ n_prepend = 0
    /\ n_remove = 0

\* One pass of the main loop (lines 110-181); a pass that raises ends it.
MainLoop ==
    /\ op \in {"", "main_loop"}
    /\ main_loop.tokens # <<>> /\ main_loop.err = ""
    /\ main_loop' = ParseStep(main_loop)
    /\ op' = "main_loop"
    /\ UNCHANGED <<manager, err, ret, lo, hi, n_append, n_prepend, n_remove,
                   glm_text, glm_tree, glm_again>>

\* The loop is over: the tree is worked over and returned (lines 183-230),
\* or the exception of the last pass leaves the function.
Return ==
    /\ op \in {"", "main_loop"}
    /\ main_loop.tokens = <<>> \/ main_loop.err # ""
    /\ LET res == PostPass(main_loop)
       IN /\ glm_tree' = res.tree
          /\ err' = res.err
    /\ op' = "_parse_token_list"
    /\ UNCHANGED <<manager, ret, lo, hi, n_append, n_prepend, n_remove,
                   glm_text, glm_again, main_loop>>

NextParse == MainLoop \/ Return

SpecParse == InitParse /\ [][NextParse]_vars

\* The loop is sequential code: a pass that can run does run.
SpecParseFair == SpecParse /\ WF_vars(MainLoop)

(***************************************************************************)
(* The error kinds of the specification, as sets of the code's messages.   *)
(***************************************************************************)
DuplicateError == {E_MultipleClocks, E_ModulePresent, E_ObjectExists}

InvalidTypeError == {E_UnknownType, E_CannotModify, E_CannotRemoveProps,
                     E_CannotRemove}

FieldNames == {"object", "name", "phases", "length", "groupid", "clock",
               "timezone", "stoptime", "module", "omftype", "argument", "port"}

NotFoundError == {E_NoObject, E_NoModule, E_NoClock, E_KeyError, E_Unnamed}
                 \cup {E_NoField \o f : f \in FieldNames}

(***************************************************************************)
(* What the claims speak of, read off the state.                           *)
(***************************************************************************)
\* every <<key, reference>> entry the index holds
IndexEntries ==
    (IF Len(model_map.clock) > 0 THEN {model_map.clock} ELSE {})
    \cup {model_map.module[i][2] : i \in DOMAIN model_map.module}
    \cup UNION {{model_map.object[i][2][j][2] :
                    j \in DOMAIN model_map.object[i][2]} :
                i \in DOMAIN model_map.object}
    \cup {model_map.object_unnamed[i] : i \in DOMAIN model_map.object_unnamed}

\* the index entry an item identifies (by clock marker, module name, or
\* object type and name), <<>> when the index has none
IndexEntryOf(item_dict) ==
    IF Has(item_dict, "object")
    THEN (IF Has(item_dict, "name")
             /\ \E i \in DOMAIN model_map.object :
                  /\ model_map.object[i][1] = Get(item_dict, "object")
                  /\ Has(model_map.object[i][2], Get(item_dict, "name"))
          THEN Get(Get(model_map.object, Get(item_dict, "object")),
                   Get(item_dict, "name"))
          ELSE <<>>)
    ELSE IF Has(item_dict, "module")
    THEN (IF Has(model_map.module, Get(item_dict, "module"))
          THEN Get(model_map.module, Get(item_dict, "module")) ELSE <<>>)
    ELSE IF Has(item_dict, "clock") THEN model_map.clock
    ELSE <<>>

\* the fields of an item that say which item it is
IdentityFields(item_dict) ==
    IF Has(item_dict, "object") THEN {"object", "name"}
    ELSE IF Has(item_dict, "module") THEN {"module"}
    ELSE IF Has(item_dict, "clock") THEN {"clock"}
    ELSE {}

\* the item is one of the variants add_item is specified for
IsObject(item_dict) == Has(item_dict, "object")
IsClock(item_dict) == ~IsObject(item_dict) /\ ~Has(item_dict, "module")
                      /\ Has(item_dict, "clock")
IsModule(item_dict) == ~IsObject(item_dict) /\ Has(item_dict, "module")
IsDirective(item_dict) ==
    /\ ~IsObject(item_dict) /\ ~IsModule(item_dict) /\ ~IsClock(item_dict)
    /\ \E k \in {"#set", "#include", "#define", "omftype"} : Has(item_dict, k)

\* adding the item would give the index a second clock, module name or
\* object (type, name)
ViolatesUniqueness(item_dict) ==
    \/ IsClock(item_dict) /\ Len(model_map.clock) > 0
    \/ IsModule(item_dict) /\ IndexEntryOf(CastValues(item_dict)) # <<>>
    \/ IsObject(item_dict) /\ IndexEntryOf(CastValues(item_dict)) # <<>>

\* the fields of d whose names are in S, in d's order
Restrict(d, S) == SelectSeq(d, LAMBDA e : e[1] \in S)

\* every heap cell but r is as it was
OthersUnchanged(r) ==
    /\ DOMAIN heap' = DOMAIN heap
    /\ \A q \in DOMAIN heap : q # r => heap'[q] = heap[q]

(***************************************************************************)
(* C1.  In every reachable state each index entry (clock, module, named    *)
(* object, unnamed object) holds a key that is in the tree, and the item   *)
(* it refers to is the very item the tree holds at that key.               *)
(***************************************************************************)
C1_IndexAliasesTree ==
    \A e \in IndexEntries :
        /\ Has(model_dict, e[1])
        /\ Get(model_dict, e[1]) = e[2]
        /\ e[2] \in DOMAIN heap

\* an added object was modified through the index, and the tree shows it
C1_Witness ==
    /\ op = "modify_item" /\ err = "" /\ n_append = 1
    /\ IndexEntryOf(Obj("load", "load_1", <<>>)) # <<>>
    /\ LET e == IndexEntryOf(Obj("load", "load_1", <<>>))
       IN /\ e[1] > hi
          /\ Has(heap[Get(model_dict, e[1])], "groupid")
          /\ Get(heap[Get(model_dict, e[1])], "groupid") = T("7")

C4_FailedRemoveLeavesFields ==
    [][\A call \in RemovePropertiesInputs :
          /\ op' = "remove_properties_from_item"
          /\ RemovePropertiesFromItem(call[1], call[2])
          /\ IndexEntryOf(call[1]) # <<>>
          /\ \E n \in DOMAIN call[2] :
                ~Has(heap[IndexEntryOf(call[1])[2]], call[2][n])
          => /\ \E n \in DOMAIN call[2] :
                   /\ ~Has(heap[IndexEntryOf(call[1])[2]], call[2][n])
                   /\ err' = E_NoField \o call[2][n]
             /\ heap' = heap]_vars

C6_AddStep ==
    \A item_dict \in AddInputs :
        op' = "add_item" /\ err' = "" /\ AddCall(item_dict) =>
           IF IsObject(item_dict)
           THEN /\ ~Has(model_dict, append_key)
                /\ Has(model_dict', append_key)
                /\ heap'[Get(model_dict', append_key)] = CastValues(item_dict)
                /\ append_key' = append_key + 1
                /\ prepend_key' = prepend_key
           ELSE /\ ~Has(model_dict, prepend_key)
                /\ Has(model_dict', prepend_key)
                /\ heap'[Get(model_dict', prepend_key)] = CastValues(item_dict)
                /\ prepend_key' = prepend_key - 1
                /\ append_key' = append_key

C6_KeyBounds ==
    n_remove = 0 =>
       /\ Min(Keys(model_dict)) = lo - n_prepend
       /\ Max(Keys(model_dict)) = hi + n_append

C6_KeyCounters == [](C6_KeyBounds) /\ [][C6_AddStep]_vars

\* an object and a non-object were added and nothing was removed
C6_Witness ==
    /\ n_append = 1 /\ n_prepend = 1 /\ n_remove = 0
    /\ lo > 0

(***************************************************************************)
(* C7.  write_model emits the statements of the tree in strictly ascending *)
(* key order whatever the order of insertion; an item added as a           *)
(* non-object gets a key below every key of the tree and below every key   *)
(* present at load, so it is rendered before them and before the items     *)
(* prepended earlier; an added object gets a key above all of them.        *)
(***************************************************************************)
\* the n-th smallest key of the tree
KeyAt(n) ==
    CHOOSE k \in Keys(model_dict) :
        Cardinality({j \in Keys(model_dict) : j < k}) = n - 1

\* the renderings of the items at the n smallest keys, smallest key first
RECURSIVE InKeyOrder(_)
InKeyOrder(n) ==
    IF n = 0 THEN ""
    ELSE InKeyOrder(n - 1)
         \o _dict_to_string(heap[Get(model_dict, KeyAt(n))]).text \o "\n"

C7_WrittenInKeyOrder ==
    op = "write_model" /\ err = "" => ret = InKeyOrder(Len(model_dict))

C7_AddOrder ==
    \A item_dict \in AddInputs :
        op' = "add_item" /\ err' = "" /\ AddCall(item_dict) =>
           /\ Cardinality(Keys(model_dict') \ Keys(model_dict)) = 1
           /\ \A k \in Keys(model_dict') \ Keys(model_dict) :
                 IF IsObject(item_dict)
                 THEN k > hi /\ \A j \in Keys(model_dict) : j < k
                 ELSE k < lo /\ \A j \in Keys(model_dict) : k < j

C7_StatementOrder == [](C7_WrittenInKeyOrder) /\ [][C7_AddOrder]_vars

\* a model was written after two items were prepended and one appended to it
C7_Witness ==
    /\ op = "write_model" /\ err = "" /\ ret # ""
    /\ n_prepend = 2 /\ n_append = 1

(***************************************************************************)
(* C8 (as claimed).  add_item succeeds for every item variant that does    *)
(* not violate uniqueness: an object is stored at append_key and indexed,  *)
(* a clock, a module and a directive in any form (#set, #include, #define, *)
(* keyword/argument) is stored at prepend_key, clock and module indexed.   *)
(***************************************************************************)
C8_ValidAddSucceeds ==
    [][\A item_dict \in AddInputs :
          /\ op' = "add_item" /\ AddCall(item_dict)
          /\ \/ IsObject(item_dict) \/ IsClock(item_dict)
             \/ IsModule(item_dict) \/ IsDirective(item_dict)
          /\ ~ViolatesUniqueness(item_dict)
          => /\ err' = ""
             /\ LET key == IF IsObject(item_dict) THEN append_key
                           ELSE prepend_key
                IN /\ ~Has(model_dict, key)
                   /\ Has(model_dict', key)
                   /\ heap'[Get(model_dict', key)] = CastValues(item_dict)
                   /\ (IsObject(item_dict) \/ IsClock(item_dict)
                       \/ IsModule(item_dict))
                        => <<key, Get(model_dict', key)>> \in IndexEntries']_vars

(***************************************************************************)
(* C9 (as claimed).  A successful modify_item overwrites or adds on the    *)
(* target exactly the non-identity fields of the given item; every other   *)
(* field of the target, its identity, its key and index entry, every other *)
(* item and both counters are unchanged.                                   *)
(***************************************************************************)
\* the step changes, on the item that started as `before`, the fields
\* update_names to the given item's values and nothing else
ModifiesOnly(item_dict, ref, before) ==
    LET update_names == Keys(item_dict) \ IdentityFields(item_dict)
    IN /\ \A f \in update_names :
             /\ Has(heap'[ref], f)
             /\ Get(heap'[ref], f) = str(Get(item_dict, f))
       /\ Keys(heap'[ref]) = Keys(before) \cup update_names
       /\ Restrict(heap'[ref], Keys(before) \ update_names)
            = Restrict(before, Keys(before) \ update_names)
       /\ OthersUnchanged(ref)
       /\ UNCHANGED <<model_dict, model_map, append_key, prepend_key>>

C9_ModifyChangesOnlyGivenFields ==
    [][\A item_dict \in ModifyInputs :
          op' = "modify_item" /\ err' = "" /\ ModifyItem(item_dict) =>
             ModifiesOnly(item_dict, IndexEntryOf(item_dict)[2],
                          heap[IndexEntryOf(item_dict)[2]])]_vars

(***************************************************************************)
(* C9 (amended).  As claimed, except that a target module held in the      *)
(* keyword/argument form (omftype module, argument <name>) is first turned *)
(* into the block form: its omftype and argument fields are replaced by a  *)
(* module field holding the same name, and the given fields are applied to *)
(* that.                                                                   *)
(***************************************************************************)
\* a module item in the block form, its name taken from the argument
AsBlockForm(d) ==
    Restrict(d, Keys(d) \ {"omftype", "argument", "module"})
    \o << <<"module", Get(d, "argument")>> >>

C9_ModifyChangesOnlyGivenFieldsOrForm ==
    [][\A item_dict \in ModifyInputs :
          op' = "modify_item" /\ err' = "" /\ ModifyItem(item_dict) =>
             LET ref == IndexEntryOf(item_dict)[2]
             IN ModifiesOnly(item_dict, ref,
                             IF IsModule(item_dict) /\ Has(heap[ref], "omftype")
                             THEN AsBlockForm(heap[ref]) ELSE heap[ref])]_vars

\* a field of a loaded object was overwritten and another one added
C9_Witness ==
    /\ op = "modify_item" /\ err = ""
    /\ IndexEntryOf(Obj("load", "load_1", <<>>)) # <<>>
    /\ LET item == heap[IndexEntryOf(Obj("load", "load_1", <<>>))[2]]
       IN item = Obj("load", "load_1",
                     << <<"phases", T("B")>>, <<"length", T("10")>>,
                        <<"groupid", T("7")>> >>)

(***************************************************************************)
(* C10.  A successful remove_properties_from_item removes from the target  *)
(* (object by type and name, the clock, or module by name) exactly the     *)
(* named fields, seen through the tree and through the index alike, and    *)
(* leaves every other field of the target and every other item unchanged.  *)
(***************************************************************************)
C10_RemovesExactlyNamedFields ==
    [][\A call \in RemovePropertiesInputs :
          /\ op' = "remove_properties_from_item" /\ err' = ""
          /\ RemovePropertiesFromItem(call[1], call[2])
          => LET entry == IndexEntryOf(call[1])
                 names == {call[2][n] : n \in DOMAIN call[2]}
             IN /\ names \subseteq Keys(heap[entry[2]])
                /\ heap'[entry[2]]
                     = Restrict(heap[entry[2]], Keys(heap[entry[2]]) \ names)
                /\ Get(model_dict', entry[1]) = entry[2]
                /\ IndexEntryOf(call[1])' = entry
                /\ OthersUnchanged(entry[2])
                /\ UNCHANGED <<model_dict, model_map, append_key,
                               prepend_key>>]_vars

\* two fields were removed from a loaded object that keeps its other fields
C10_Witness ==
    /\ op = "remove_properties_from_item" /\ err = ""
    /\ IndexEntryOf(Obj("load", "load_1", <<>>)) # <<>>
    /\ heap[IndexEntryOf(Obj("load", "load_1", <<>>))[2]]
         = Obj("load", "load_1", <<>>)
(***************************************************************************)
(* C11.  A successful remove_item of a named object, the clock or a module *)
(* (a module loaded in the keyword/argument form included) deletes the     *)
(* target's key from the tree and its entry from the index, and leaves     *)
(* every other tree entry, every other index entry, append_key and         *)
(* prepend_key unchanged.                                                  *)
(***************************************************************************)
C11_RemoveDeletesOnlyTarget ==
    [][\A item_dict \in RemoveInputs :
          op' = "remove_item" /\ err' = "" /\ RemoveItem(item_dict) =>
             LET entry == IndexEntryOf(item_dict)
             IN /\ entry # <<>>
                /\ model_dict' = Pop(model_dict, entry[1])
                /\ Keys(model_dict') = Keys(model_dict) \ {entry[1]}
                /\ IndexEntries' = IndexEntries \ {entry}
                /\ IndexEntryOf(item_dict)' = <<>>
                /\ \A other \in AddInputs \cup ModifyInputs \cup RemoveInputs :
                      IndexEntryOf(other) # entry =>
                         IndexEntryOf(other)' = IndexEntryOf(other)
                /\ model_map'.object_unnamed = model_map.object_unnamed
                /\ DOMAIN heap' = DOMAIN heap \ {entry[2]}
                /\ \A q \in DOMAIN heap' : heap'[q] = heap[q]
                /\ UNCHANGED <<append_key, prepend_key>>]_vars

\* the module loaded as `module mysql;` was removed and the objects loaded
\* after it are still in the tree
C11_Witness ==
    /\ op = "remove_item" /\ err = "" /\ n_remove = 1
    /\ lo = 0 /\ ~Has(model_dict, 0) /\ Has(model_dict, 1)
    /\ model_map.module = <<>>

(***************************************************************************)
(* C12: in every state reachable from a loaded model by add_item and       *)
(* modify_item calls, every field value of every item stored in the tree   *)
(* is text: the values parsed or defaulted at load are text, and the       *)
(* non-text values passed to add_item or modify_item are stored as text.   *)
(***************************************************************************)
C12_EveryValueIsText ==
    \A key \in Keys(model_dict) :
        LET item == heap[Get(model_dict, key)]
        IN \A i \in DOMAIN item : IsIntKey(item[i][1]) \/ item[i][2].ty = "str"

(***************************************************************************)
(* C13: for every model text that parses, parsing the text, serializing    *)
(* the tree and parsing the output again yields a tree with as many items  *)
(* and, item by item in key order, the same variant, field names and       *)
(* values (apart from name and parent values longer than 62 characters).   *)
(***************************************************************************)
\* The field is a name or parent that the serializer truncates.
Truncated(field) ==
    /\ field[1] \in {"name", "parent"}
    /\ field[2].ty = "str"
    /\ Len(field[2].s) > NameLimit

\* Same variant (the first key), same field names, same value of each.
SameItem(first, second) ==
    /\ first # <<>> /\ second # <<>> => first[1][1] = second[1][1]
    /\ Keys(first) = Keys(second)
    /\ \A i \in DOMAIN first :
          Truncated(first[i]) \/ first[i][2] = Get(second, first[i][1])

C13_RoundTrip ==
    /\ op = "sorted_write" /\ glm_text # "" => err = ""
    /\ op = "parse_again" =>
          /\ err = ""
          /\ Len(glm_again) = Len(glm_tree)
          /\ \A i \in DOMAIN glm_tree : SameItem(glm_tree[i][2], glm_again[i][2])

(***************************************************************************)
(* C14: parsing retains every object of type recorder, group_recorder and  *)
(* collector: each such object statement of the input is an entry of the   *)
(* tree returned, so the tree has as many entries as top-level statements  *)
(* were parsed.                                                            *)
(***************************************************************************)
\* The top-level statements parsed: the entries the main loop stored.
StatementsParsed == ParseLoop(ParseState(_tokenize_glm(glm_text))).tree

C14_RecordersRetained ==
    op = "parse" /\ err = "" =>
        /\ Len(glm_tree) = Len(StatementsParsed)
        /\ \A i \in DOMAIN StatementsParsed :
              LET item == StatementsParsed[i][2]
              IN Has(item, "object") /\ objects_to_delete(item) =>
                    \E j \in DOMAIN glm_tree :
                        /\ glm_tree[j][1] = StatementsParsed[i][1]
                        /\ Get(glm_tree[j][2], "object") = Get(item, "object")

(***************************************************************************)
(* C15: loading a model in which an object is nested inside another object *)
(* does not fail, and the nested object is an entry of the tree under its  *)
(* own key, referenced from its parent, and present in the index under its *)
(* type and name like a top-level object.                                  *)
(***************************************************************************)
C15_NestedObjectsLoaded ==
    op = "GLMManager" =>
        \A i \in DOMAIN StatementsParsed :
            LET item == StatementsParsed[i][2]
            IN Has(item, "object") /\ HasNested(item) =>
                  /\ err = ""
                  /\ \A f \in DOMAIN item :
                        item[f][2].ty = "dict" =>
                           LET entry == IndexEntryOf(item[f][2].d)
                           IN /\ entry # <<>>
                              /\ entry[1] \in Keys(model_dict)
                              /\ IntKey(entry[1]) \in
                                    Keys(heap[Get(model_dict, StatementsParsed[i][1])])

(***************************************************************************)
(* C16: after parsing, every object of type fuse has a                     *)
(* mean_replacement_time field: 3600.0 when the source omits it, the value *)
(* of the source when it gives one; no object of another type gains the    *)
(* field.                                                                  *)
(***************************************************************************)
\* The item the main loop stored under the key, before the pass on the tree.
AsRead(key) ==
    LET i == CHOOSE i \in DOMAIN StatementsParsed : StatementsParsed[i][1] = key
    IN StatementsParsed[i][2]

C16_FuseDefault ==
    op = "parse" /\ err = "" =>
        \A j \in DOMAIN glm_tree :
            LET item == glm_tree[j][2]
                read == AsRead(glm_tree[j][1])
                given == Has(read, "mean_replacement_time")
            IN IF Has(item, "object") /\ Get(item, "object") = T("fuse")
               THEN /\ Has(item, "mean_replacement_time")
                    /\ given => Get(item, "mean_replacement_time")
                                   = Get(read, "mean_replacement_time")
                    /\ ~given => Get(item, "mean_replacement_time").s = "3600.0"
               ELSE Has(item, "mean_replacement_time") <=> given

C16_Witness ==
    /\ op = "parse" /\ err = ""
    /\ \E j, k \in DOMAIN glm_tree :
          LET omitted == glm_tree[j][2]
              given == glm_tree[k][2]
          IN /\ Has(omitted, "object") /\ Get(omitted, "object") = T("fuse")
             /\ ~Has(AsRead(glm_tree[j][1]), "mean_replacement_time")
             /\ Get(omitted, "mean_replacement_time").s = "3600.0"
             /\ Has(given, "object") /\ Get(given, "object") = T("fuse")
             /\ Get(given, "mean_replacement_time") = T("10")

(***************************************************************************)
(* C17: building the index from a parsed tree fails with DuplicateError    *)
(* when the tree holds a second clock, two modules with the same name (in  *)
(* block form or in keyword/argument form) or two named objects with the   *)
(* same (type, name), and with UnsupportedItemError when an entry matches  *)
(* no recognized variant; otherwise it succeeds with exactly one index     *)
(* entry per clock, module and object.                                     *)
(***************************************************************************)
UnsupportedItemError == {E_UnknownType}

\* A module in the keyword/argument form: module X;
IsKeywordModule(item_dict) ==
    /\ ~IsObject(item_dict) /\ ~IsModule(item_dict) /\ ~IsClock(item_dict)
    /\ ~Has(item_dict, "#include") /\ ~Has(item_dict, "#set")
    /\ Has(item_dict, "omftype") /\ Get(item_dict, "omftype") = T("module")

\* The name of a module in either form.
ModuleName(item_dict) ==
    IF IsModule(item_dict) THEN Get(item_dict, "module")
    ELSE Get(item_dict, "argument")

\* The entries of a tree that the index is to hold.
Indexed(t) ==
    {i \in DOMAIN t : \/ IsObject(t[i][2]) \/ IsClock(t[i][2])
                      \/ IsModule(t[i][2]) \/ IsKeywordModule(t[i][2])}

\* Two entries of the tree that the index cannot both hold.
HasDuplicate(t) ==
    \E i, j \in DOMAIN t :
        /\ i # j
        /\ LET a == t[i][2]
               b == t[j][2]
           IN \/ IsClock(a) /\ IsClock(b)
              \/ /\ IsModule(a) \/ IsKeywordModule(a)
                 /\ IsModule(b) \/ IsKeywordModule(b)
                 /\ ModuleName(a) = ModuleName(b)
              \/ /\ IsObject(a) /\ IsObject(b)
                 /\ Has(a, "name") /\ Has(b, "name")
                 /\ Get(a, "object") = Get(b, "object")
                 /\ Get(a, "name") = Get(b, "name")

\* An entry of the tree that is of no recognized variant.
HasUnsupported(t) ==
    \E i \in DOMAIN t :
        \A k \in {"object", "module", "clock", "#include", "#set", "omftype"} :
            ~Has(t[i][2], k)

\* The tree the constructor builds the index from.
Loaded == parse(glm_text)

C17_IndexBuilding ==
    op = "GLMManager" /\ Loaded.err = "" /\ Loaded.tree # <<>> =>
        LET t == Loaded.tree
        IN /\ HasDuplicate(t) /\ ~HasUnsupported(t) => err \in DuplicateError
           /\ HasUnsupported(t) /\ ~HasDuplicate(t) => err \in UnsupportedItemError
           /\ HasDuplicate(t) /\ HasUnsupported(t) =>
                 err \in DuplicateError \cup UnsupportedItemError
           /\ ~HasDuplicate(t) /\ ~HasUnsupported(t) =>
                 /\ err = ""
                 /\ Cardinality(IndexEntries) = Cardinality(Indexed(t))
                 /\ \A i \in Indexed(t) :
                       \E entry \in IndexEntries :
                           /\ entry[1] = t[i][1]
                           /\ heap[entry[2]] = t[i][2]

\* module mysql; and module mysql {...} in one model
C17_Witness ==
    /\ op = "GLMManager" /\ err = E_ModulePresent
    /\ \E i, j \in DOMAIN Loaded.tree :
          /\ IsKeywordModule(Loaded.tree[i][2])
          /\ IsModule(Loaded.tree[j][2])

(***************************************************************************)
(* C18: when serializing, a name or parent value of at most 62 characters  *)
(* is emitted in full, and a longer one as its first 62 characters         *)
(* followed by an inline comment with the original value, with a warning;  *)
(* serialization still succeeds, the value stored in the tree is not       *)
(* changed, and fields other than name and parent are never truncated.     *)
(***************************************************************************)
\* The text p occurs in the text s.
Occurs(s, p) == \E i \in 1..(Len(s) - Len(p) + 1) : StartsAt(s, i, p)

\* The line of a field written in full, and the line of one truncated.
FullLine(field) == "\t" \o field[1] \o " " \o field[2].s \o ";\n"
TruncatedLine(field) ==
    "\t" \o field[1] \o " " \o SubSeq(field[2].s, 1, NameLimit)
         \o "; // truncated from " \o field[2].s \o "\n"

\* The text fields of the objects of the tree, but the type.
ObjectFields(t) ==
    UNION {{t[i][2][f] : f \in {f \in DOMAIN t[i][2] :
                                   /\ t[i][2][f][2].ty = "str"
                                   /\ t[i][2][f][1] \notin {"object", "comment"}}} :
           i \in {i \in DOMAIN t : IsObject(t[i][2])}}

RECURSIVE LinesOf(_, _)
LinesOf(item, fields) ==
    IF fields = <<>> THEN ""
    ELSE (IF Has(item, Head(fields))
          THEN FullLine(<<Head(fields), Get(item, Head(fields))>>) ELSE "")
         \o LinesOf(item, Tail(fields))

\* The clocks of a tree.
Clocks(t) == {t[i][2] : i \in {i \in DOMAIN t : IsClock(t[i][2])
                                                /\ ~Has(t[i][2], "omftype")}}

FirstAt(s, p) ==
    IF Occurs(s, p)
    THEN Min({i \in 1..(Len(s) - Len(p) + 1) : StartsAt(s, i, p)})
    ELSE 0

\* The first line of the block of an object.
Header(item) == "object " \o Get(item, "object").s \o " {\n"

\* In the text, the blocks of the nested objects of the item are within the
\* block of the item and before its scalar fields; the same for each of them.
RECURSIVE NestedFirst(_, _)
NestedFirst(text, item) ==
    \A n \in {n \in DOMAIN item : item[n][2].ty = "dict"} :
        LET child == item[n][2].d
        IN /\ FirstAt(text, Header(item)) > 0
           /\ FirstAt(text, Header(item)) < FirstAt(text, Header(child))
           /\ \A f \in {f \in DOMAIN item : /\ item[f][2].ty = "str"
                                            /\ item[f][1] # "object"} :
                 FirstAt(text, Header(child)) < FirstAt(text, FullLine(item[f]))
           /\ NestedFirst(text, child)

C20_NestedBeforeFields ==
    op = "sorted_write" /\ err = "" =>
        \A i \in DOMAIN glm_tree :
            IsObject(glm_tree[i][2]) => NestedFirst(ret, glm_tree[i][2])

(***************************************************************************)
(* C21: add_or_modify_clock on a model that has a clock overwrites exactly *)
(* the clock fields among starttime, stoptime, timezone that were supplied *)
(* (date-times stored as single-quoted 'YYYY-MM-DD HH:MM:SS' text) and     *)
(* leaves the other clock fields, the clock's key and every other item     *)
(* unchanged; on a model without a clock and with all three supplied it    *)
(* creates exactly one clock.                                              *)
(***************************************************************************)
Digits == {"0", "1", "2", "3", "4", "5", "6", "7", "8", "9"}

\* The text is 'YYYY-MM-DD HH:MM:SS', quotes included.
IsQuotedDateTime(s) ==
    /\ Len(s) = 21
    /\ \A i \in 1..21 :
          CASE i \in {1, 21} -> Char(s, i) = "'"
            [] i \in {6, 9} -> Char(s, i) = "-"
            [] i = 12 -> Char(s, i) = " "
            [] i \in {15, 18} -> Char(s, i) = ":"
            [] OTHER -> Char(s, i) \in Digits

\* The clock fields a call supplies, by name.
Supplied(starttime, stoptime, timezone) ==
    (IF starttime = None THEN {} ELSE {"starttime"})
    \cup (IF stoptime = None THEN {} ELSE {"stoptime"})
    \cup (IF timezone = None THEN {} ELSE {"timezone"})

\* The clock item holds the values supplied, the date-times as text.
HoldsSupplied(clock, starttime, stoptime, timezone) ==
    /\ Supplied(starttime, stoptime, timezone) \subseteq Keys(clock)
    /\ starttime # None =>
          /\ Get(clock, "starttime").ty = "str"
          /\ IsQuotedDateTime(Get(clock, "starttime").s)
          /\ SubSeq(Get(clock, "starttime").s, 2, 5) = ToString(starttime.year)
    /\ stoptime # None =>
          /\ Get(clock, "stoptime").ty = "str"
          /\ IsQuotedDateTime(Get(clock, "stoptime").s)
          /\ SubSeq(Get(clock, "stoptime").s, 2, 5) = ToString(stoptime.year)
    /\ timezone # None => Get(clock, "timezone") = timezone

C21_ClockOverwritesOnlySupplied ==
    [][\A starttime \in StartTimes, stoptime \in StopTimes, timezone \in TimeZones :
          /\ op' = "add_or_modify_clock" /\ err' = ""
          /\ AddOrModifyClock(starttime, stoptime, timezone)
          => IF Len(model_map.clock) > 0
             THEN LET ref == model_map.clock[2]
                      others == Keys(heap[ref])
                                   \ Supplied(starttime, stoptime, timezone)
                  IN /\ HoldsSupplied(heap'[ref], starttime, stoptime, timezone)
                     /\ Keys(heap'[ref]) = Keys(heap[ref])
                           \cup Supplied(starttime, stoptime, timezone)
                     /\ \A k \in others : Get(heap'[ref], k) = Get(heap[ref], k)
                     /\ OthersUnchanged(ref)
                     /\ UNCHANGED <<model_dict, model_map, append_key, prepend_key>>
             ELSE /\ Supplied(starttime, stoptime, timezone)
                        = {"starttime", "stoptime", "timezone"}
                  /\ Len(model_map'.clock) > 0
                  /\ LET key == model_map'.clock[1]
                         ref == model_map'.clock[2]
                     IN /\ key \notin Keys(model_dict)
                        /\ model_dict' = Put(model_dict, key, ref)
                        /\ ref \notin DOMAIN heap
                        /\ DOMAIN heap' = DOMAIN heap \cup {ref}
                        /\ \A q \in DOMAIN heap : heap'[q] = heap[q]
                        /\ Keys(heap'[ref])
                              = {"clock", "starttime", "stoptime", "timezone"}
                        /\ HoldsSupplied(heap'[ref], starttime, stoptime, timezone)
                        /\ IndexEntries' = IndexEntries \cup {<<key, ref>>}]_vars

\* timezone alone was supplied to a clock that had a stoptime
C21_Witness ==
    /\ op = "add_or_modify_clock" /\ err = ""
    /\ Len(model_map.clock) > 0
    /\ heap[model_map.clock[2]] =
          << <<"clock", T("clock")>>, <<"timezone", T("Pacific")>>,
             <<"stoptime", T("'2001-01-01 01:00:00'")>> >>

(***************************************************************************)
(* C22: add_or_modify_clock fails with InvalidValueError when all three    *)
(* arguments are absent, and when no clock exists and at least one of the  *)
(* three is absent; it fails with InvalidTypeError when starttime or       *)
(* stoptime is not a date-time or timezone is not text; in each failure no *)
(* clock is created or changed and tree and index are unchanged.           *)
(***************************************************************************)
InvalidValueError == {E_ValueError}
ArgumentTypeError == {E_TypeError}

\* An argument that is given and is not of its type.
BadClockType(starttime, stoptime, timezone) ==
    \/ starttime # None /\ starttime.ty # "datetime"
    \/ stoptime # None /\ stoptime.ty # "datetime"
    \/ timezone # None /\ timezone.ty # "str"

\* All three are absent, or there is no clock and one of them is absent.
BadClockValue(starttime, stoptime, timezone) ==
    \/ Supplied(starttime, stoptime, timezone) = {}
    \/ /\ Len(model_map.clock) = 0
       /\ Supplied(starttime, stoptime, timezone)
             # {"starttime", "stoptime", "timezone"}

C22_ClockErrors ==
    [][\A starttime \in StartTimes, stoptime \in StopTimes, timezone \in TimeZones :
          /\ op' = "add_or_modify_clock"
          /\ AddOrModifyClock(starttime, stoptime, timezone)
          => LET type == BadClockType(starttime, stoptime, timezone)
                 value == BadClockValue(starttime, stoptime, timezone)
             IN /\ type /\ ~value => err' \in ArgumentTypeError
                /\ value /\ ~type => err' \in InvalidValueError
                /\ value /\ type =>
                      err' \in ArgumentTypeError \cup InvalidValueError
                /\ ~value /\ ~type => err' = ""
                /\ err' # "" => UNCHANGED manager]_vars

\* a start time and a time zone alone, on a model without a clock
C22_Witness ==
    /\ op = "add_or_modify_clock" /\ err = E_ValueError
    /\ Len(model_map.clock) = 0
    /\ \A key \in Keys(model_dict) : ~Has(heap[Get(model_dict, key)], "clock")

(***************************************************************************)
(* C23: after add_run_components on a loaded model, the tree holds, at     *)
(* keys below every key present at load and in this ascending key order, a *)
(* minimum_timestep directive, a profiler directive, a relax_naming_rules  *)
(* directive, a powerflow module (solver NR, line capacitance enabled) and *)
(* then the optional voltage-source #define, with a generators module also *)
(* present only when the model contains distributed generation; no object  *)
(* present at load is changed.                                             *)
(***************************************************************************)
\* The arguments are ones add_run_components accepts.
ValidRun(starttime, stoptime, timezone, v_source, profiler, minimum_timestep) ==
    /\ ~BadClockType(starttime, stoptime, timezone)
    /\ ~BadClockValue(starttime, stoptime, timezone)
    /\ v_source.ty \in {"None", "int", "float"}
    /\ profiler.ty = "int" /\ profiler.s \in {"0", "1"}
    /\ minimum_timestep.ty = "int"

\* The tree md with the heap h holds the item under the key.
HoldsAt(md, h, key, item) == Has(md, key) /\ h[Get(md, key)] = item

C23_RunComponents ==
    [][\A starttime \in StartTimes, stoptime \in StopTimes, timezone \in TimeZones,
          v_source \in VSources, profiler \in Profilers,
          minimum_timestep \in MinimumTimesteps :
          /\ op' = "add_run_components"
          /\ n_prepend = 0 /\ n_remove = 0
          /\ ValidRun(starttime, stoptime, timezone, v_source, profiler,
                      minimum_timestep)
          /\ AddRunComponents(starttime, stoptime, timezone, v_source, profiler,
                              minimum_timestep)
          => /\ err' = ""
             /\ \E k1, k2, k3, k4 \in Keys(model_dict') :
                   /\ k1 < k2 /\ k2 < k3 /\ k3 < k4 /\ k4 < lo
                   /\ HoldsAt(model_dict', heap', k1,
                              << <<"#set", T("minimum_timestep="
                                             \o minimum_timestep.s)>> >>)
                   /\ HoldsAt(model_dict', heap', k2,
                              << <<"#set", T("profiler=" \o profiler.s)>> >>)
                   /\ HoldsAt(model_dict', heap', k3,
                              << <<"#set", T("relax_naming_rules=1")>> >>)
                   /\ HoldsAt(model_dict', heap', k4,
                              << <<"module", T("powerflow")>>,
                                 <<"solver_method", T("NR")>>,
                                 <<"line_capacitance", T("TRUE")>> >>)
                   /\ v_source # None =>
                         \E k5 \in Keys(model_dict') :
                             /\ k4 < k5 /\ k5 < lo
                             /\ HoldsAt(model_dict', heap', k5,
                                        << <<"#define",
                                             T("VSOURCE=" \o v_source.s)>> >>)
             /\ Has(model_map'.module, T("generators"))
                   <=> HasGeneration(model_map)
             /\ \A key \in Keys(model_dict) :
                   IsObject(heap[Get(model_dict, key)]) =>
                      HoldsAt(model_dict', heap', key, heap[Get(model_dict, key)])]_vars

\* The claim for the calls that give no voltage source.
C23_WithoutVoltageSource ==
    [][\A starttime \in StartTimes, stoptime \in StopTimes, timezone \in TimeZones,
          profiler \in Profilers, minimum_timestep \in MinimumTimesteps :
          /\ op' = "add_run_components"
          /\ n_prepend = 0 /\ n_remove = 0
          /\ ValidRun(starttime, stoptime, timezone, None, profiler,
                      minimum_timestep)
          /\ AddRunComponents(starttime, stoptime, timezone, None, profiler,
                              minimum_timestep)
          => /\ err' = ""
             /\ \E k1, k2, k3, k4 \in Keys(model_dict') :
                   /\ k1 < k2 /\ k2 < k3 /\ k3 < k4 /\ k4 < lo
                   /\ HoldsAt(model_dict', heap', k1,
                              << <<"#set", T("minimum_timestep="
                                             \o minimum_timestep.s)>> >>)
                   /\ HoldsAt(model_dict', heap', k2,
                              << <<"#set", T("profiler=" \o profiler.s)>> >>)
                   /\ HoldsAt(model_dict', heap', k3,
                              << <<"#set", T("relax_naming_rules=1")>> >>)
                   /\ HoldsAt(model_dict', heap', k4,
                              << <<"module", T("powerflow")>>,
                                 <<"solver_method", T("NR")>>,
                                 <<"line_capacitance", T("TRUE")>> >>)
             /\ Has(model_map'.module, T("generators"))
                   <=> HasGeneration(model_map)
             /\ \A key \in Keys(model_dict) :
                   IsObject(heap[Get(model_dict, key)]) =>
                      HoldsAt(model_dict', heap', key, heap[Get(model_dict, key)])]_vars

(***************************************************************************)
(* C24: find_object(type, name) returns the indexed object's item when     *)
(* (type, name) is indexed and an absent result otherwise; it never        *)
(* raises, whether the type is unindexed or the type is indexed but the    *)
(* name is not, and it changes neither tree nor index.                     *)
(***************************************************************************)
C24_FindObject ==
    [][\A call \in FindInputs :
          op' = "_find_object" /\ FindObject(call[1], call[2]) =>
             LET entry == IndexEntryOf(<< <<"object", call[1]>>,
                                          <<"name", call[2]>> >>)
             IN /\ err' = ""
                /\ entry # <<>> =>
                      /\ ret' = ToString(entry[2])
                      /\ Get(heap[entry[2]], "object") = call[1]
                      /\ Get(heap[entry[2]], "name") = call[2]
                      /\ Get(model_dict, entry[1]) = entry[2]
                /\ entry = <<>> => ret' = "None"
                /\ UNCHANGED manager]_vars

\* a name that is not indexed under a type that is
C24_Witness ==
    /\ op = "_find_object" /\ err = "" /\ ret = "None"
    /\ Has(model_map.object, T("load"))
    /\ ~Has(model_map.object, T("meter"))

(***************************************************************************)
(* C25: modify_item on a module that was parsed in the keyword/argument    *)
(* form (module X;) converts that item in place to the block form with the *)
(* same module name, applies the supplied fields, and keeps the item at    *)
(* the same tree key with the index entry for that name still referring to *)
(* the same key and the same item.                                         *)
(***************************************************************************)
C25_KeywordModuleModified ==
    [][\A item_dict \in ModifyInputs :
          /\ op' = "modify_item" /\ err' = ""
          /\ IsModule(item_dict)
          /\ ModifyItem(item_dict)
          /\ IsKeywordModule(heap[IndexEntryOf(item_dict)[2]])
          => LET entry == IndexEntryOf(item_dict)
                 before == heap[entry[2]]
                 after == heap'[entry[2]]
             IN /\ ~Has(after, "omftype") /\ ~Has(after, "argument")
                /\ Has(after, "module")
                /\ Get(after, "module") = Get(before, "argument")
                /\ Get(after, "module") = Get(item_dict, "module")
                /\ \A i \in DOMAIN item_dict :
                      item_dict[i][1] # "module" =>
                         /\ Has(after, item_dict[i][1])
                         /\ Get(after, item_dict[i][1]).ty = "str"
                         /\ Get(after, item_dict[i][1]).s = item_dict[i][2].s
                /\ Keys(after) = (Keys(before) \ {"omftype", "argument"})
                                    \cup Keys(item_dict)
                /\ model_dict' = model_dict
                /\ Get(model_dict', entry[1]) = entry[2]
                /\ IndexEntryOf(item_dict)' = entry
                /\ model_map' = model_map]_vars

\* module mysql; of the loaded model after modify_item({module: mysql, port: 3306})
C25_Witness ==
    /\ op = "modify_item" /\ err = ""
    /\ Has(model_map.module, T("mysql"))
    /\ Get(model_map.module, T("mysql"))[1] = 0
    /\ Get(model_dict, 0) = Get(model_map.module, T("mysql"))[2]
    /\ heap[Get(model_dict, 0)] =
          << <<"module", T("mysql")>>, <<"port", T("3306")>> >>

(***************************************************************************)
(* C26: in every state reachable from a loaded model by add_item,          *)
(* modify_item, remove_properties_from_item and remove_item, every         *)
(* top-level tree entry that is a clock, a module (block or keyword and    *)
(* argument form) or an object is present in the index: the clock as the   *)
(* index clock, a module under its name, a named object under its type and *)
(* name, an unnamed object in the unnamed list, each with the entry's own  *)
(* key.                                                                    *)
(***************************************************************************)
\* The tree entry <<key, ref>> is in the index where its item belongs.
InIndex(key, ref) ==
    LET item == heap[ref]
    IN /\ IsClock(item) /\ ~IsKeywordModule(item) =>
             model_map.clock = <<key, ref>>
       /\ IsModule(item) \/ IsKeywordModule(item) =>
             /\ Has(model_map.module, ModuleName(item))
             /\ Get(model_map.module, ModuleName(item)) = <<key, ref>>
       /\ IsObject(item) /\ Has(item, "name") =>
             IndexEntryOf(item) = <<key, ref>>
       /\ IsObject(item) /\ ~Has(item, "name") =>
             \E i \in DOMAIN model_map.object_unnamed :
                 model_map.object_unnamed[i] = <<key, ref>>

C26_TreeEntriesIndexed ==
    \A i \in DOMAIN model_dict : InIndex(model_dict[i][1], model_dict[i][2])

(***************************************************************************)
(* The passes of the main loop, for the claims on the tree builder.        *)
(***************************************************************************)
\* The statement the next pass collects: the tokens up to the first
\* terminator (none when no terminator is left).
Statement ==
    SubSeq(main_loop.tokens, 1, FirstIn(main_loop.tokens, Terminators, 1))

\* A pass of the main loop is taken.
Pass == op' = "main_loop"

\* The statement is one the rule for ; and line breaks gets: the rules for
\* #set, #include and shape come before it.
TerminatedStatement ==
    /\ Statement # <<>>
    /\ Statement[1] \notin {"#set", "#include", "shape"}
    /\ Statement[Len(Statement)] \in {";", "\n"}

\* The words of a statement after the first, joined.
Remainder(s) == Join(SubSeq(s, 2, Len(s) - 1))

\* The item at path below item.
RECURSIVE Below(_, _)
Below(item, path) ==
    IF path = <<>> THEN item
    ELSE Below(Get(item, IntKey(path[1])).d, Tail(path))

\* The item of the innermost open scope.
ScopeItem(tree, guid_stack) ==
    Below(Get(tree, guid_stack[1]), Tail(guid_stack))

\* The item with the item at path below it emptied.
RECURSIVE Blank(_, _)
Blank(item, path) ==
    IF path = <<>> THEN <<>>
    ELSE Put(item, IntKey(path[1]),
             D(Blank(Get(item, IntKey(path[1])).d, Tail(path))))

\* The tree with the item of the innermost open scope emptied: what is left
\* is every other item.
OtherItems(tree, guid_stack) ==
    Put(tree, guid_stack[1], Blank(Get(tree, guid_stack[1]), Tail(guid_stack)))

\* What the rule for ; and line breaks does with the statement of the pass.
StatementRule ==
    LET s == Statement
        before == main_loop
        after == main_loop'
    IN /\ after.err = ""
       /\ after.guid_stack = before.guid_stack
       /\ IF Len(s) = 1
          THEN after.tree = before.tree /\ after.guid = before.guid
          ELSE IF before.guid_stack = <<>>
          THEN /\ after.tree =
                     Append(before.tree,
                            <<before.guid,
                              << <<"omftype", T(s[1])>>,
                                 <<"argument", T(Remainder(s))>> >> >>)
               /\ after.guid = before.guid + 1
          ELSE /\ after.guid = before.guid
               /\ ScopeItem(after.tree, before.guid_stack) =
                     Put(ScopeItem(before.tree, before.guid_stack),
                         s[1], T(Remainder(s)))
               /\ OtherItems(after.tree, before.guid_stack) =
                     OtherItems(before.tree, before.guid_stack)

(***************************************************************************)
(* C27: in a pass of the main loop on a statement that ends with ; or a    *)
(* line break, a statement of more than the terminator becomes a new       *)
(* top-level item of its first word as omftype and the rest as argument,   *)
(* under the current guid, which goes up by one, when no scope is open,    *)
(* and a field of the innermost open item, no other item changing and guid *)
(* staying, when one is; a statement of the terminator alone changes       *)
(* neither the tree nor guid.  No such pass raises.                        *)
(***************************************************************************)
C27_StatementRule ==
    [][Pass /\ TerminatedStatement => StatementRule]_vars

\* The same of the statements of two words or more, and of the terminator
\* alone: a statement of one word raises TypeError in list_to_string.
C27_StatementOfWordsRule ==
    [][Pass /\ TerminatedStatement /\ Len(Statement) # 2 => StatementRule]_vars

\* b c ; read in the scope of an object nested in an object
C27_Witness ==
    /\ op = "main_loop" /\ main_loop.err = ""
    /\ Len(main_loop.guid_stack) = 2
    /\ Len(main_loop.tree) = 1
    /\ Has(ScopeItem(main_loop.tree, main_loop.guid_stack), "b")
    /\ ~Has(main_loop.tree[1][2], "b")

\* The statement of the pass opens a scope: the rules for #set, #include,
\* shape and schedule come before the rule for {.
OpensScope ==
    /\ Statement # <<>>
    /\ Statement[1] \notin {"#set", "#include", "shape", "schedule"}
    /\ Statement[Len(Statement)] = "{"

\* The statement of the pass closes a scope.
ClosesScope ==
    /\ Statement # <<>>
    /\ Statement[1] \notin {"#set", "#include", "shape"}
    /\ Statement[Len(Statement)] = "}"

\* The keys of the items nested in the item, from field i on, each as often
\* as an item has it.
RECURSIVE NestedKeys(_, _)
NestedKeys(item, i) ==
    IF i > Len(item) THEN <<>>
    ELSE (IF item[i][2].ty = "dict"
          THEN <<item[i][1]>> \o NestedKeys(item[i][2].d, 1)
          ELSE <<>>) \o NestedKeys(item, i + 1)

\* The keys of all items of the tree, from entry i on.
RECURSIVE ItemKeys(_, _)
ItemKeys(tree, i) ==
    IF i > Len(tree) THEN <<>>
    ELSE <<IntKey(tree[i][1])>> \o NestedKeys(tree[i][2], 1)
            \o ItemKeys(tree, i + 1)

\* No key is the key of two items, and every key is below guid.
KeysDistinct ==
    LET keys == ItemKeys(main_loop.tree, 1)
    IN /\ \A i, j \in DOMAIN keys : keys[i] = keys[j] => i = j
       /\ \A i \in DOMAIN keys :
             \E k \in 0..(main_loop.guid - 1) : keys[i] = IntKey(k)

\* The path leads from the item down to an item.
RECURSIVE Resolves(_, _)
Resolves(item, path) ==
    \/ path = <<>>
    \/ /\ Has(item, IntKey(path[1]))
       /\ Get(item, IntKey(path[1])).ty = "dict"
       /\ Resolves(Get(item, IntKey(path[1])).d, Tail(path))

\* guid_stack names items of the tree, each nested in the one before it,
\* in the order they were created.
StackNested ==
    LET stack == main_loop.guid_stack
    IN /\ \A i, j \in DOMAIN stack : i < j => stack[i] < stack[j]
       /\ stack # <<>> =>
             /\ Has(main_loop.tree, stack[1])
             /\ Resolves(Get(main_loop.tree, stack[1]), Tail(stack))

\* What a pass does with guid and guid_stack.
StackRule ==
    LET before == main_loop
        after == main_loop'
        stack == before.guid_stack
    IN /\ after.guid >= before.guid
       /\ IF after.err # ""
          THEN after.guid_stack = stack /\ after.tree = before.tree
          ELSE IF OpensScope
          THEN /\ after.guid_stack = Append(stack, before.guid)
               /\ after.guid = before.guid + 1
               /\ IF stack = <<>>
                  THEN /\ ~Has(before.tree, before.guid)
                       /\ Has(after.tree, before.guid)
                  ELSE /\ ~Has(ScopeItem(before.tree, stack),
                               IntKey(before.guid))
                       /\ Has(ScopeItem(after.tree, stack),
                              IntKey(before.guid))
                       /\ Get(ScopeItem(after.tree, stack),
                              IntKey(before.guid)).ty = "dict"
          ELSE IF ClosesScope
          THEN /\ stack # <<>>
               /\ after.guid_stack = SubSeq(stack, 1, Len(stack) - 1)
          ELSE after.guid_stack = stack

(***************************************************************************)
(* C28: while the main loop runs, no two items of the tree, nested ones    *)
(* included, have the same key, every key is below guid, and guid_stack    *)
(* names items nested one in the other, outermost first; no pass lowers    *)
(* guid; a pass on a statement ending with { gives the new item the guid   *)
(* of before the pass as key, appends that key to guid_stack, raises guid  *)
(* by one and puts the item into the innermost open item, or into the tree *)
(* when none is open; a pass on a statement ending with } removes the last *)
(* key of guid_stack and no other; every other pass leaves guid_stack as   *)
(* it is, and so does a pass that raises.                                  *)
(***************************************************************************)
C28_KeysAndStack ==
    /\ [](main_loop # <<>> => KeysDistinct /\ StackNested)
    /\ [][Pass => StackRule]_vars

\* item 1 was opened in item 0 and closed again, item 0 still open
C28_Witness ==
    /\ op = "main_loop" /\ main_loop.err = ""
    /\ main_loop.guid_stack = <<0>>
    /\ main_loop.guid = 2
    /\ Has(Get(main_loop.tree, 0), IntKey(1))

\* The main loop is over: the tokens are used up or a pass has raised.
LoopOver == main_loop.tokens = <<>> \/ main_loop.err # ""

\* _parse_token_list is over: it returned a tree or raised.
ParseEnded == op = "_parse_token_list"

(***************************************************************************)
(* C29: on every token list, malformed ones included, every pass of the    *)
(* main loop either raises or leaves fewer tokens than it found, the main  *)
(* loop comes to its end, and _parse_token_list, which then works the tree *)
(* over once, ends with a tree returned or with one of IndexError,         *)
(* TypeError and AttributeError raised.                                    *)
(***************************************************************************)
C29_Terminates ==
    /\ [][Pass => \/ main_loop'.err # ""
                  \/ Len(main_loop'.tokens) < Len(main_loop.tokens)]_vars
    /\ [](ParseEnded =>
             err \in {"", E_IndexError, E_TypeError, E_AttributeError})
    /\ [](ParseEnded => LoopOver)
    /\ <>LoopOver

\* a schedule with no } is rejected where it starts, a statement before it
\* worked with
C29_Witness ==
    /\ ParseEnded /\ err = E_IndexError
    /\ main_loop.tokens = <<"schedule", "s3", "{", "*">>
    /\ main_loop.guid = 1

\* The statement of the pass is one the schedule rule gets: it starts with
\* schedule and ends with the opening {.
ScheduleStatement ==
    /\ Statement # <<>>
    /\ Statement[1] = "schedule"
    /\ Statement[Len(Statement)] = "{"

\* The position of the first } after the opening {, 0 when there is none.
ClosingBrace == FirstIn(main_loop.tokens, {"}"}, Len(Statement) + 1)

\* The tokens between the opening { and the closing }.
Interior == SubSeq(main_loop.tokens, Len(Statement) + 1, ClosingBrace - 1)

\* The pass adds one schedule item of the given body to the tree, under
\* the current guid, and nothing else.
ScheduleRule(body) ==
    LET before == main_loop
        after == main_loop'
    IN /\ after.err = ""
       /\ after.tree =
             Append(before.tree,
                    <<before.guid,
                      << <<"object", T("schedule")>>,
                         <<"name", T(Statement[2])>>,
                         <<"cron", T(Join(body))>> >> >>)
       /\ after.guid = before.guid + 1
       /\ after.guid_stack = before.guid_stack
       /\ after.tokens = SubSeq(before.tokens, ClosingBrace + 1,
                                Len(before.tokens))

(***************************************************************************)
(* C30: a pass on a statement that starts with schedule and has its        *)
(* closing } adds exactly one item to the top level of the tree, under the *)
(* current guid, which goes up by one: an object schedule whose name is    *)
(* the second token and whose cron is all tokens between the opening { and *)
(* the closing }, joined by spaces; guid_stack stays as it is.             *)
(***************************************************************************)
C30_ScheduleItem ==
    [][Pass /\ ScheduleStatement /\ ClosingBrace # 0
          => ScheduleRule(Interior)]_vars

\* The same with the cron the code stores: the tokens between { and }
\* without the last of them.
C30_ScheduleItemLessLastToken ==
    [][Pass /\ ScheduleStatement /\ ClosingBrace # 0 /\ Len(Statement) = 3
          => ScheduleRule(SubSeq(Interior, 1, Len(Interior) - 1))]_vars

\* schedule s2 { * 2 } read inside an open scope: the item is at the top
\* level of the tree, with * as its cron
C30_Witness ==
    /\ op = "main_loop" /\ main_loop.err = ""
    /\ Len(main_loop.guid_stack) = 1
    /\ Len(main_loop.tree) = 2
    /\ main_loop.tree[2][2] = << <<"object", T("schedule")>>,
                                 <<"name", T("s2")>>,
                                 <<"cron", T("*")>> >>

\* The text holds no character c.
NoChar(s, c) == \A i \in 1..Len(s) : SubSeq(s, i, i) # c

\* t is s with every character of cs replaced by an underscore.
Underscored(s, t, cs) ==
    /\ Len(t) = Len(s)
    /\ \A i \in 1..Len(s) :
          SubSeq(t, i, i) = IF SubSeq(s, i, i) \in cs THEN "_"
                            ELSE SubSeq(s, i, i)

\* type is the part of the type token before its first colon.
BeforeColon(token, type) ==
    /\ NoChar(type, ":")
    /\ Len(type) <= Len(token)
    /\ SubSeq(token, 1, Len(type)) = type
    /\ Len(type) < Len(token) => SubSeq(token, Len(type) + 1, Len(type) + 1) = ":"

HyphenFree == {"name", "parent", "from", "to"}

(***************************************************************************)
(* C32: in the tree parse() returns, the values of name, parent, from and  *)
(* to of every object hold no hyphen and are the values read with each     *)
(* hyphen (and colon) replaced by an underscore; every other value read    *)
(* for an object keeps its hyphens, only its colons being replaced; and    *)
(* every item that is no object is returned exactly as it was read.        *)
(***************************************************************************)
C32_HyphensReplaced ==
    op = "parse" /\ err = "" =>
        \A j \in DOMAIN glm_tree :
            LET item == glm_tree[j][2]
                read == AsRead(glm_tree[j][1])
            IN IF Has(item, "object")
               THEN /\ \A f \in DOMAIN item :
                          item[f][1] \in HyphenFree =>
                             NoChar(item[f][2].s, "-")
                    /\ \A f \in DOMAIN read :
                          LET k == read[f][1]
                          IN /\ Has(item, k)
                             /\ k \in HyphenFree =>
                                   Underscored(read[f][2].s, Get(item, k).s,
                                               {":", "-"})
                             /\ k \notin HyphenFree \cup {"object"} =>
                                   Underscored(read[f][2].s, Get(item, k).s,
                                               {":"})
               ELSE item = read

\* object line:a-b with to n-2 and note x-y, and a clock with timezone
\* EST-5, in one text
C32_Witness ==
    /\ op = "parse" /\ err = ""
    /\ Len(glm_tree) = 2
    /\ Has(glm_tree[1][2], "object")
    /\ Has(glm_tree[1][2], "to") /\ Get(glm_tree[1][2], "to") = T("n_2")
    /\ Has(glm_tree[1][2], "note") /\ Get(glm_tree[1][2], "note") = T("x-y")
    /\ Has(glm_tree[2][2], "timezone")
    /\ Get(glm_tree[2][2], "timezone") = T("EST-5")

(***************************************************************************)
(* C33: write_model leaves the manager as it found it: the tree with its   *)
(* keys, every item with its fields in their order, the index, append_key  *)
(* and prepend_key are the same after the call as before, also when the    *)
(* text holds a name or parent cut to 62 characters; and writing the model *)
(* again right after a write_model gives the text and outcome of that      *)
(* call.                                                                   *)
(***************************************************************************)
C33_WriteReadsOnly ==
    /\ [][op' = "write_model" => manager' = manager]_vars
    /\ [](op = "write_model" =>
             /\ write_model(Self).text = ret
             /\ write_model(Self).err = err)

\* the model was written with the name of 63 characters cut, and the item
\* still has all 63
C33_Witness ==
    /\ op = "write_model" /\ err = ""
    /\ \E i \in 1..Len(ret) - 15 : SubSeq(ret, i, i + 15) = "; // truncated f"
    /\ \E r \in Reachable(Self) :
          /\ Has(heap[r], "name")
          /\ Get(heap[r], "name") = T(Chars63)

\* The keys of the nested items of the tree, as the keys their parents hold.
NestedTreeKeys ==
    UNION {{NestedKeys(heap[model_dict[i][2]], 1)[j] :
               j \in DOMAIN NestedKeys(heap[model_dict[i][2]], 1)} :
           i \in DOMAIN model_dict}

\* Every key of a tree entry is between prepend_key and append_key.
EntryKeysBetween ==
    \A k \in Keys(model_dict) : prepend_key < k /\ k < append_key

\* An add_item that succeeds stores the item under a key no entry has, and
\* the counters only move away from the keys.
FreshKeyStep ==
    /\ append_key' >= append_key
    /\ prepend_key' <= prepend_key
    /\ op' = "add_item" /\ err' = "" =>
          /\ \A i \in DOMAIN model_dict : model_dict'[i] = model_dict[i]
          /\ Len(model_dict') = Len(model_dict) + 1
          /\ model_dict'[Len(model_dict')][1] \in {append_key, prepend_key}
          /\ model_dict'[Len(model_dict')][1] \notin Keys(model_dict)

(***************************************************************************)
(* C34: in every state reached from a loaded model by add_item and         *)
(* remove_item, every key of a tree entry and every key of an item nested  *)
(* in an entry is above prepend_key and below append_key; the counters     *)
(* never move back towards the keys, and a successful add_item stores the  *)
(* item under the counter of before the call, which is the key of no       *)
(* entry, every entry of before the call staying.                          *)
(***************************************************************************)
C34_KeysBetweenCounters ==
    /\ [](/\ EntryKeysBetween
          /\ \A k \in NestedTreeKeys :
                \E n \in (prepend_key + 1)..(append_key - 1) : k = IntKey(n))
    /\ [][FreshKeyStep]_vars

\* The same of the keys of tree entries alone.
C34_EntryKeysBetweenCounters ==
    [](EntryKeysBetween) /\ [][FreshKeyStep]_vars

(***************************************************************************)
(* C35: in every state reached from a loaded model by add_item,            *)
(* modify_item, remove_properties_from_item and remove_item, every item    *)
(* the index holds under an object type and a name has that type and that  *)
(* name as its object and name fields, every item it holds under a module  *)
(* name has that name as its module name (the module field, or the         *)
(* argument of the keyword form), and the item it holds as the clock has   *)
(* the clock field: no call, remove_properties_from_item included, takes   *)
(* an identity field from an indexed item.                                 *)
(***************************************************************************)
C35_IndexedUnderOwnIdentity ==
    /\ \A i \in DOMAIN model_map.object :
          LET names == model_map.object[i][2]
          IN \A j \in DOMAIN names :
                LET item == heap[names[j][2][2]]
                IN /\ Has(item, "object")
                   /\ Get(item, "object") = model_map.object[i][1]
                   /\ Has(item, "name")
                   /\ Get(item, "name") = names[j][1]
    /\ \A i \in DOMAIN model_map.module :
          LET item == heap[model_map.module[i][2][2]]
          IN \/ /\ Has(item, "module")
                /\ Get(item, "module") = model_map.module[i][1]
             \/ /\ Has(item, "omftype") /\ Get(item, "omftype") = T("module")
                /\ Has(item, "argument")
                /\ Get(item, "argument") = model_map.module[i][1]
    /\ model_map.clock # <<>> => Has(heap[model_map.clock[2]], "clock")


\* The first words of the statement the serializer writes for an item of the
\* type the manager gives it (_get_item_type, and _map_model_dict for an
\* item it gives no type).
RenderedAsClassified(item_dict) ==
    LET type == _get_item_type(item_dict)
        out == _dict_to_string(item_dict)
    IN /\ out.err = ""
       /\ CASE type = "object" ->
                 \/ StartsAt(out.text, 1, "object ")
                 \/ StartsAt(out.text, 1, "schedule ")
            [] type = "module" -> StartsAt(out.text, 1, "module ")
            [] type = "clock" -> StartsAt(out.text, 1, "clock {")
            [] type = "include" -> StartsAt(out.text, 1, "#include ")
            [] type = "set" -> StartsAt(out.text, 1, "#set ")
            [] type = "omftype" ->
                 StartsAt(out.text, 1, Get(item_dict, "omftype").s \o " ")
            [] OTHER -> TRUE

\* C36: every entry of the tree is rendered by the serializer, and as the
\* kind of statement the manager classifies it as: an object is written as
\* an object (or schedule) block, a module as a module, the clock as the
\* clock, a directive as that directive, and no entry makes the serializer
\* fail.
C36_RenderedAsClassified ==
    \A i \in DOMAIN model_dict : RenderedAsClassified(heap[model_dict[i][2]])


\* The two items say the same thing of what they are: the clock, a module
\* of one name, an object of one type and name.
SameIdentity(a, b) ==
    /\ _get_item_type(a) = _get_item_type(b)
    /\ CASE _get_item_type(a) = "object" ->
              /\ Get(a, "object") = Get(b, "object")
              /\ Has(a, "name") /\ Has(b, "name")
              /\ Get(a, "name") = Get(b, "name")
         [] _get_item_type(a) = "module" -> Get(a, "module") = Get(b, "module")
         [] _get_item_type(a) = "clock" -> TRUE
         [] OTHER -> FALSE

\* The key under which the index of self holds the item item_dict names.
IndexedKey(self, item_dict) ==
    CASE _get_item_type(item_dict) = "object" ->
           Get(Get(self.model_map.object, Get(item_dict, "object")),
               Get(item_dict, "name"))[1]
      [] _get_item_type(item_dict) = "module" ->
           Get(self.model_map.module, Get(item_dict, "module"))[1]
      [] OTHER -> self.model_map.clock[1]

\* remove_item(removed) and then add_item(added) on the manager self: when
\* the removal succeeds so does the addition, and the tree gains one entry
\* for the added item, under the counter the addition found, a key that
\* is not the removed item's and not that of an entry that stayed.
ReAdd(self, removed, added) ==
    LET gone == remove_item(self, removed)
        back == add_item(gone.self, added)
        tree == back.self.model_dict
    IN gone.err = "" =>
          /\ back.err = ""
          /\ Len(tree) = Len(gone.self.model_dict) + 1
          /\ tree[Len(tree)][1] \in
                {gone.self.prepend_key, gone.self.append_key}
          /\ tree[Len(tree)][1] # IndexedKey(self, removed)
          /\ tree[Len(tree)][1] \notin Keys(gone.self.model_dict)
          /\ SameIdentity(back.self.heap[tree[Len(tree)][2]], added)
          /\ IndexedKey(back.self, added) = tree[Len(tree)][1]

\* C37: in every state, for the clock, a module and a named object: when
\* remove_item of it succeeds, add_item of an item of the same identity on
\* the manager the removal leaves succeeds too, and stores the new item
\* under the current prepend_key or append_key, which is not the key the
\* removed item had.
C37_ReAddAfterRemove ==
    \A removed \in RemoveInputs : \A added \in AddInputs :
        SameIdentity(added, removed) => ReAdd(Self, removed, added)

\* load_1, loaded under a key of the text, has been removed and added
\* again, and is indexed under a key beyond those of the text.
C37_Witness ==
    /\ op = "add_item" /\ err = "" /\ n_remove > 0 /\ lo = 0
    /\ Has(model_map.object, T("load"))
    /\ Has(Get(model_map.object, T("load")), T("load_1"))
    /\ Get(Get(model_map.object, T("load")), T("load_1"))[1] > hi


\* The objects index has an entry for the type: what a test of the type's
\* presence reads.
TypeEntry(object_type) == Has(model_map.object, object_type)

\* The object types of the models and of the calls.
ObjectTypes == {T("load"), T("meter"), T("recorder")}

\* An entry of the tree is an object of the type with a name.
NamedInTree(object_type) ==
    \E i \in DOMAIN model_dict :
        LET item == heap[model_dict[i][2]]
        IN /\ Has(item, "object") /\ Get(item, "object") = object_type
           /\ Has(item, "name")

\* C38: the objects index has an entry for an object type exactly when a
\* named object of that type is in the tree, the entry then holding at
\* least one object: a test of a type's presence is true for no type whose
\* objects are all unnamed or have all been removed.
C38_TypeEntryIffNamedObject ==
    \A object_type \in ObjectTypes :
        /\ TypeEntry(object_type) <=> NamedInTree(object_type)
        /\ TypeEntry(object_type) =>
               Get(model_map.object, object_type) # <<>>

\* Every named object of the tree is indexed under its type and name: the
\* part of C38 that holds.
C38_NamedObjectsIndexed ==
    \A i \in DOMAIN model_dict :
        LET item == heap[model_dict[i][2]]
        IN Has(item, "object") /\ Has(item, "name") =>
              /\ TypeEntry(Get(item, "object"))
              /\ Has(Get(model_map.object, Get(item, "object")),
                     Get(item, "name"))

=============================================================================
